---- MODULE Spec2Model ----
(***************************************************************************)
(* The multiplexer core of wezterm: the Mux registry (tabs, windows), the  *)
(* per-tab pty reader threads, and the glutin GUI executor (bounded        *)
(* channel, high-priority deque, tick channel, service loop).              *)
(***************************************************************************)
EXTENDS Integers, Sequences, FiniteSets, TLC

\* ---------------------------------------------------------------- bounds
MaxTabs == 2          \* tab ids in use
MaxWindows == 2       \* window ids in use
MaxReaders == 2       \* reader threads spawned
MaxWindowLen == 2     \* tabs pushed to one window
MaxChunks == 2        \* chunks a pty yields before EOF
BurstChunks == 12     \* chunks the pty of the burst scenario yields
LiveChunks == 1       \* chunks all ptys yield together in the fair scenario
MaxGuiSends == 2      \* work items the GUI thread submits
MaxTicks == 1         \* ticks pending in tick_rx
MaxPayload == 128     \* bytes of the longest raw payload
MaxPollUnits == 1     \* MAX_POLL_LOOP_DURATION, in runs of a work item
MaxAwakened == 2      \* Awakened events pending in the native event loop

\* mpsc::sync_channel(12) in GuiSender::new
GUI_CHANNEL_CAPACITY == 12

TabIds == 1..MaxTabs
WindowIds == 1..MaxWindows
GuiThread == 0        \* the thread whose FRONT_END thread-local is set
Threads == 0..MaxReaders

VARIABLES
    tabs,             \* Mux.tabs: the keys of the TabId -> Tab map
    windows,          \* Mux.windows: WindowId -> Window (its ordered tab list)
    nextWindowId,     \* the id the next Window::new() gets
    readers,          \* the reader threads spawned by add_tab, in spawn order
    last,             \* the last Mux call: its name, arguments and result
    nextTabId,        \* the id the next tab a domain creates gets
    gui_rx,           \* the bounded channel GuiSender.tx -> GuiEventLoop.gui_rx
    gui_thread_sends, \* GuiEventLoop.gui_thread_sends
    tick_rx,          \* ticks sent and not yet received
    awakened,         \* Awakened events posted by proxy.wakeup(), not yet seen
    by_id,            \* GuiEventLoop.windows.by_id: the open GUI windows
    gui,              \* where the GUI thread is in main / run_forever
    ticker,           \* where the tick thread is in its loop
    ran,              \* per submitting thread, the numbers of its work items run
    advanced,         \* per tab, the chunks given to advance_bytes
    guiSent,          \* work items the GUI thread has submitted
    iter,             \* the steps of the current run_forever iteration so far
    elapsed,          \* start.elapsed() in the second loop of process_gui_exec
    codec,            \* a frame of the mux protocol on its way through the codec
    client,           \* the RenderableState of a ClientTab and its surroundings
    ids,              \* the id counters and the ids each thread was given
    quoting           \* an argument on its way into a Windows command line

sidevars == <<codec, client, ids, quoting>>
progvars == <<tabs, windows, nextWindowId, readers, last, nextTabId, gui_rx,
              gui_thread_sends, tick_rx, awakened, by_id, gui, ticker, ran,
              advanced, guiSent, iter, elapsed>>
muxvars == <<tabs, windows, nextWindowId, readers, last>>
queuevars == <<gui_rx, gui_thread_sends, awakened, guiSent>>
vars == <<tabs, windows, nextWindowId, readers, last, nextTabId, gui_rx,
          gui_thread_sends, tick_rx, awakened, by_id, gui, ticker, ran,
          advanced, guiSent, iter, elapsed, sidevars>>

Call(op, tab_id, window_id, result) ==
    [op |-> op, tab |-> tab_id, win |-> window_id, ret |-> result]

Range(s) == {s[i] : i \in 1..Len(s)}

\* ------------------------------------------------------------- Window
\* mux/window.rs is not part of the sources at hand; the three operations
\* Mux uses are taken from the description of Window: an ordered list of
\* tab handles, push appends, remove_by_id removes the tab if present and
\* says whether it was, is_empty.
Window_new == <<>>

Window_push(win, tab_id) == Append(win, tab_id)

Window_contains(win, tab_id) == tab_id \in Range(win)

Window_remove_by_id(win, tab_id) ==
    SelectSeq(win, LAMBDA x : x # tab_id)

Window_is_empty(win) == Len(win) = 0

\* ---------------------------------------------------------------- Mux
\* The Mux operations are functions of the registry m = [tabs, windows,
\* nextWindowId, readers, last], so that a caller that makes several calls
\* in a row (LocalDomain::spawn) is one step.
MuxState ==
    [tabs |-> tabs, windows |-> windows, nextWindowId |-> nextWindowId,
     readers |-> readers, last |-> last]

SetMux(m) ==
    /\ tabs' = m.tabs
    /\ windows' = m.windows
    /\ nextWindowId' = m.nextWindowId
    /\ readers' = m.readers
    /\ last' = m.last

\* A reader thread as thread::spawn(read_from_tab_pty(tab_id, reader))
\* leaves it: about to read, nothing read yet.
NewReader(tab_id) == [tab |-> tab_id, pc |-> "read", nread |-> 0, eof |-> FALSE]

\* A lookup that finds a tab under every id, removed ones included.
get_tab_StillThere(m, tab_id) == TRUE

get_tab(m, tab_id) == tab_id \in m.tabs

\* add_tab with tab.reader()? ahead of the insert: a tab whose reader
\* cannot be had is not registered.
add_tab_ReaderFirst(m, tab_id, reader_ok) ==
    IF reader_ok
    THEN [m EXCEPT !.tabs = @ \cup {tab_id},
                   !.readers = Append(@, NewReader(tab_id)),
                   !.last = Call("add_tab", tab_id, 0, "ok")]
    ELSE [m EXCEPT !.last = Call("add_tab", tab_id, 0, "err")]

\* Mux::add_tab: the insert comes first, then tab.reader()? may return the
\* error (reader_ok = FALSE) before the thread is spawned.
add_tab(m, tab_id, reader_ok) ==
    IF reader_ok
    THEN [m EXCEPT !.tabs = @ \cup {tab_id},
                   !.readers = Append(@, NewReader(tab_id)),
                   !.last = Call("add_tab", tab_id, 0, "ok")]
    ELSE [m EXCEPT !.tabs = @ \cup {tab_id},
                   !.last = Call("add_tab", tab_id, 0, "err")]

\* The windows remove_tab's first loop marks dead: remove_by_id returned
\* true and the window is empty afterwards.
dead_windows(m, tab_id) ==
    {w \in DOMAIN m.windows :
        /\ Window_contains(m.windows[w], tab_id)
        /\ Window_is_empty(Window_remove_by_id(m.windows[w], tab_id))}

\* remove_tab that takes every window it finds empty for dead, whether the
\* tab was removed from it or not.
remove_tab_ReapsEmpty(m, tab_id) ==
    [m EXCEPT !.tabs = @ \ {tab_id},
              !.windows = [w \in {v \in DOMAIN m.windows :
                                     ~Window_is_empty(Window_remove_by_id(m.windows[v], tab_id))} |->
                              Window_remove_by_id(m.windows[w], tab_id)],
              !.last = Call("remove_tab", tab_id, 0, "ok")]

\* remove_tab without its second loop: dead windows stay.
remove_tab_NoReap(m, tab_id) ==
    [m EXCEPT !.tabs = @ \ {tab_id},
              !.windows = [w \in DOMAIN m.windows |->
                              Window_remove_by_id(m.windows[w], tab_id)],
              !.last = Call("remove_tab", tab_id, 0, "ok")]

\* remove_tab that stops walking the windows at the first one holding the tab.
remove_tab_FirstWindowOnly(m, tab_id) ==
    LET holders == {w \in DOMAIN m.windows : Window_contains(m.windows[w], tab_id)}
        first == IF holders = {} THEN 0
                 ELSE CHOOSE w \in holders : \A v \in holders : w <= v
    IN  [m EXCEPT !.tabs = @ \ {tab_id},
                  !.windows = [w \in DOMAIN m.windows \ (dead_windows(m, tab_id) \cap {first}) |->
                                  IF w = first
                                  THEN Window_remove_by_id(m.windows[w], tab_id)
                                  ELSE m.windows[w]],
                  !.last = Call("remove_tab", tab_id, 0, "ok")]

\* Mux::remove_tab.
remove_tab(m, tab_id) ==
    [m EXCEPT !.tabs = @ \ {tab_id},
              !.windows = [w \in DOMAIN m.windows \ dead_windows(m, tab_id) |->
                              Window_remove_by_id(m.windows[w], tab_id)],
              !.last = Call("remove_tab", tab_id, 0, "ok")]

\* Mux::new_empty_window: Window::new() takes the next id.
new_empty_window(m) ==
    [m EXCEPT !.windows = [w \in DOMAIN m.windows \cup {m.nextWindowId} |->
                              IF w = m.nextWindowId THEN Window_new ELSE m.windows[w]],
              !.nextWindowId = @ + 1,
              !.last = Call("new_empty_window", 0, m.nextWindowId, "ok")]

get_window_mut(m, window_id) == window_id \in DOMAIN m.windows

\* add_tab_to_window that makes the window it does not find.
add_tab_to_window_MakesWindow(m, tab_id, window_id) ==
    [m EXCEPT !.windows = [w \in DOMAIN m.windows \cup {window_id} |->
                              IF w = window_id
                              THEN Window_push(IF w \in DOMAIN m.windows
                                               THEN m.windows[w] ELSE Window_new, tab_id)
                              ELSE m.windows[w]],
              !.last = Call("add_tab_to_window", tab_id, window_id, "ok")]

\* Mux::add_tab_to_window: the error when the window is absent, else push.
add_tab_to_window(m, tab_id, window_id) ==
    IF get_window_mut(m, window_id)
    THEN [m EXCEPT !.windows[window_id] = Window_push(@, tab_id),
                   !.last = Call("add_tab_to_window", tab_id, window_id, "ok")]
    ELSE [m EXCEPT !.last = Call("add_tab_to_window", tab_id, window_id, "err")]

\* LocalDomain::spawn from mux.add_tab on: each call's error is returned
\* at once (the ? operator), the tab handed back otherwise.
LocalDomain_spawn(m, tab_id, reader_ok, window_id) ==
    LET m1 == add_tab(m, tab_id, reader_ok)
    IN  IF m1.last.ret = "err" THEN m1 ELSE add_tab_to_window(m1, tab_id, window_id)

\* ------------------------------------------------------- GUI executor
\* A work item: who submitted it (src), its number among that thread's
\* submissions (n), what it does (kind, arg), and whether the bounded channel
\* was full when the GUI thread submitted it (full).
Item(src, n, kind, arg, full) ==
    [src |-> src, n |-> n, kind |-> kind, arg |-> arg, full |-> full]

\* The two queues and the wakeup count as one value, so that a handler that
\* submits several items is one step. blocked: a send had to wait.
QueueState ==
    [gui_rx |-> gui_rx, gui_thread_sends |-> gui_thread_sends,
     awakened |-> awakened, guiSent |-> guiSent, blocked |-> FALSE]

SetQueues(q) ==
    /\ gui_rx' = q.gui_rx
    /\ gui_thread_sends' = q.gui_thread_sends
    /\ awakened' = q.awakened
    /\ guiSent' = q.guiSent

\* front_end(): the FRONT_END thread-local is set in the thread that ran
\* FrontEndSelection::try_new, the GUI thread, and in no other.
front_end(thread) == thread = GuiThread

\* spawn_func with push_front in place of push_back.
spawn_func_PushFront(q, func) ==
    [q EXCEPT !.gui_thread_sends = <<func>> \o @]

\* GuiEventLoop::spawn_func
spawn_func(q, func) ==
    [q EXCEPT !.gui_thread_sends = Append(@, func)]

\* tx.send on a channel without a bound (mpsc::channel).
tx_send_Unbounded(q, what) ==
    [q EXCEPT !.gui_rx = Append(@, what)]

\* SyncSender::send on the channel of capacity 12: with the buffer full the
\* sender waits.
tx_send(q, what) ==
    IF Len(q.gui_rx) < GUI_CHANNEL_CAPACITY
    THEN [q EXCEPT !.gui_rx = Append(@, what)]
    ELSE [q EXCEPT !.blocked = TRUE]

\* The match of GuiSender::send with the first arm gone: every thread sends
\* through the bounded channel.
GuiSender_enqueue_ChannelOnly(q, thread, what) == tx_send(q, what)

\* The match front_end() of GuiSender::send.
GuiSender_enqueue(q, thread, what) ==
    IF front_end(thread) THEN spawn_func(q, what) ELSE tx_send(q, what)

\* self.proxy.wakeup()
proxy_wakeup(q) ==
    [q EXCEPT !.awakened = IF @ < MaxAwakened THEN @ + 1 ELSE @]

\* GuiSender::send with the wakeup in the channel arm only: the GUI thread
\* queues its item and returns.
GuiSender_send_NoWakeup(q, kind, arg) ==
    LET what == Item(GuiThread, q.guiSent + 1, kind, arg,
                     Len(q.gui_rx) = GUI_CHANNEL_CAPACITY)
        q1 == GuiSender_enqueue(q, GuiThread, what)
    IN  IF q1.blocked THEN q1 ELSE [q1 EXCEPT !.guiSent = @ + 1]

\* GuiSender::send as the GUI thread runs it, start to end.
GuiSender_send(q, kind, arg) ==
    LET what == Item(GuiThread, q.guiSent + 1, kind, arg,
                     Len(q.gui_rx) = GUI_CHANNEL_CAPACITY)
        q1 == GuiSender_enqueue(q, GuiThread, what)
    IN  IF q1.blocked THEN q1
        ELSE proxy_wakeup([q1 EXCEPT !.guiSent = @ + 1])

\* GuiEventLoop::schedule_window_close
schedule_window_close(q, window_id) == GuiSender_send(q, "close", window_id)

\* The for loop of GuiEventLoop::test_for_child_exit over window_ids.
RECURSIVE schedule_closes(_, _)
schedule_closes(q, window_ids) ==
    IF window_ids = <<>> THEN q
    ELSE schedule_closes(schedule_window_close(q, Head(window_ids)), Tail(window_ids))

\* The orders in which by_id.iter_mut() can yield the windows in exited.
Orders(exited) ==
    {o \in UNION {[1..k -> exited] : k \in {Cardinality(exited)}} :
        \A i, j \in DOMAIN o : i # j => o[i] # o[j]}

\* The work item a reader thread holds between its read and its send: the
\* advance_bytes closure of the chunk just read, or after the loop the
\* remove_tab closure.
ReaderItem(i) ==
    IF readers[i].eof
    THEN Item(i, readers[i].nread + 1, "remove", readers[i].tab, FALSE)
    ELSE Item(i, readers[i].nread, "data", readers[i].tab, FALSE)

\* func(): what running a work item does to the mux, the GUI windows and
\* the terminal of its tab.
RunFunc(func) ==
    /\ ran' = [ran EXCEPT ![func.src] = Append(@, func.n)]
    /\ CASE func.kind = "data" ->
              /\ advanced' = IF get_tab(MuxState, func.arg)
                             THEN [advanced EXCEPT ![func.arg] = Append(@, func.n)]
                             ELSE advanced
              /\ UNCHANGED <<muxvars, by_id>>
         [] func.kind = "remove" ->
              /\ SetMux(remove_tab(MuxState, func.arg))
              /\ UNCHANGED <<advanced, by_id>>
         [] func.kind = "close" ->
              /\ by_id' = by_id \ {func.arg}
              /\ UNCHANGED <<muxvars, advanced>>

\* ---------------------------------------------------------------- Init
\* The state run_terminal_gui has built when it calls spawn_window: an empty
\* Mux, the GuiEventLoop of GuiEventLoop::new with its tick thread started.
InitProgram ==
    /\ tabs = {}
    /\ windows = [w \in {} |-> <<>>]
    /\ nextWindowId = 1
    /\ readers = <<>>
    /\ last = Call("none", 0, 0, "ok")
    /\ nextTabId = 1
    /\ gui_rx = <<>>
    /\ gui_thread_sends = <<>>
    /\ tick_rx = 0
    /\ awakened = 0
    /\ by_id = {}
    /\ gui = "main"
    /\ ticker = "sleep"
    /\ ran = [t \in Threads |-> <<>>]
    /\ advanced = [t \in TabIds |-> <<>>]
    /\ guiSent = 0
    /\ iter = <<>>
    /\ elapsed = 0

\* No frame in the codec.
NoFrame == [pc |-> "none"]

\* No ClientTab.
NoClient == [pc |-> "none"]

\* No id allocated by the threads of the allocation scenario.
NoIds == [pc |-> "none"]

\* No command line under construction.
NoArg == [pc |-> "none"]

Init ==
    /\ InitProgram
    /\ codec = NoFrame
    /\ client = NoClient
    /\ ids = NoIds
    /\ quoting = NoArg

\* run_forever has returned, main returns its result and the process ends
\* with all its threads.
Alive == gui # "returned"

\* ------------------------------------------------------ reader threads
\* The chunks read so far by the reader threads 1..i.
RECURSIVE ChunksRead(_)
ChunksRead(i) == IF i = 0 THEN 0 ELSE readers[i].nread + ChunksRead(i - 1)

\* reader.read(&mut buf): a chunk (more: the pty has one), or EOF / an error.
ReaderRead(i, more) ==
    /\ Alive
    /\ i \in 1..Len(readers)
    /\ readers[i].pc = "read"
    /\ \/ /\ more
          /\ readers' = [readers EXCEPT ![i].nread = @ + 1, ![i].pc = "send"]
       \/ readers' = [readers EXCEPT ![i].eof = TRUE, ![i].pc = "send"]
    /\ UNCHANGED <<tabs, windows, nextWindowId, last, nextTabId, queuevars,
                   tick_rx, by_id, gui, ticker, ran, advanced, iter, elapsed, sidevars>>

\* A reader thread that runs its closure itself instead of handing it to the
\* executor.
ReaderSend_RunsClosure(i) ==
    /\ Alive
    /\ i \in 1..Len(readers)
    /\ readers[i].pc = "send"
    /\ IF readers[i].eof
       THEN /\ tabs' = remove_tab(MuxState, readers[i].tab).tabs
            /\ windows' = remove_tab(MuxState, readers[i].tab).windows
            /\ advanced' = advanced
       ELSE /\ advanced' = IF get_tab(MuxState, readers[i].tab)
                           THEN [advanced EXCEPT ![readers[i].tab] = Append(@, readers[i].nread)]
                           ELSE advanced
            /\ UNCHANGED <<tabs, windows>>
    /\ readers' = [readers EXCEPT ![i].pc = "wakeup"]
    /\ UNCHANGED <<nextWindowId, last, nextTabId, queuevars,
                   tick_rx, by_id, gui, ticker, ran, iter, elapsed, sidevars>>

\* Future::with_executor -> execute -> GuiSender::send up to the end of its
\* match: front_end() is None here, the item goes to the bounded channel.
ReaderSend(i) ==
    /\ Alive
    /\ i \in 1..Len(readers)
    /\ readers[i].pc = "send"
    /\ LET q == GuiSender_enqueue(QueueState, i, ReaderItem(i))
       IN  /\ ~q.blocked
           /\ SetQueues(q)
    /\ readers' = [readers EXCEPT ![i].pc = "wakeup"]
    /\ UNCHANGED <<tabs, windows, nextWindowId, last, nextTabId,
                   tick_rx, by_id, gui, ticker, ran, advanced, iter, elapsed, sidevars>>

\* The self.proxy.wakeup() that ends GuiSender::send; then the next read, or
\* the end of the thread after the remove_tab item.
ReaderWakeup(i) ==
    /\ Alive
    /\ i \in 1..Len(readers)
    /\ readers[i].pc = "wakeup"
    /\ SetQueues(proxy_wakeup(QueueState))
    /\ readers' = [readers EXCEPT ![i].pc = IF readers[i].eof THEN "done" ELSE "read"]
    /\ UNCHANGED <<tabs, windows, nextWindowId, last, nextTabId,
                   tick_rx, by_id, gui, ticker, ran, advanced, iter, elapsed, sidevars>>

\* ---------------------------------------------------------- tick thread
\* sleep(TICK_INTERVAL); tick_tx.send(())
TickerSend ==
    /\ Alive
    /\ ticker = "sleep"
    /\ tick_rx < MaxTicks
    /\ tick_rx' = tick_rx + 1
    /\ ticker' = "wakeup"
    /\ UNCHANGED <<muxvars, nextTabId, queuevars, by_id, gui, ran, advanced, iter, elapsed, sidevars>>

\* proxy.wakeup()
TickerWakeup ==
    /\ Alive
    /\ ticker = "wakeup"
    /\ SetQueues(proxy_wakeup(QueueState))
    /\ ticker' = "sleep"
    /\ UNCHANGED <<muxvars, nextTabId, tick_rx, by_id, gui, ran, advanced, iter, elapsed, sidevars>>

\* ----------------------------------------------------------- GUI thread
\* FrontEnd::spawn_new_window -> GuiEventLoop::add_window. A GUI window is
\* named by the mux window it shows.
add_window(by, window_id) == by \cup {window_id}

\* spawn_window of main: a new mux window, a tab spawned into it by the
\* domain, the GUI window for it; then run_forever. An error (the ? of
\* spawn_window) ends run_terminal_gui.
SpawnWindow ==
    /\ gui = "main"
    /\ nextWindowId <= MaxWindows
    /\ nextTabId <= MaxTabs
    /\ Len(readers) < MaxReaders
    /\ \E reader_ok \in BOOLEAN :
         LET m1 == new_empty_window(MuxState)
             m2 == LocalDomain_spawn(m1, nextTabId, reader_ok, nextWindowId)
         IN  /\ SetMux(m2)
             /\ IF m2.last.ret = "ok"
                THEN /\ by_id' = add_window(by_id, nextWindowId)
                     /\ gui' = "check"
                ELSE /\ by_id' = by_id
                     /\ gui' = "returned"
    /\ nextTabId' = nextTabId + 1
    /\ UNCHANGED <<queuevars, tick_rx, ticker, ran, advanced, iter, elapsed, sidevars>>

\* The loop of run_forever without the test of the window count: every
\* iteration goes into run_event_loop.
CheckWindows_NoTest ==
    /\ gui = "check"
    /\ gui' = "wait" /\ iter' = <<"wait">>
    /\ UNCHANGED <<muxvars, nextTabId, queuevars, tick_rx, by_id, ticker, ran, advanced, elapsed, sidevars>>

\* The top of the loop of run_forever: done when no GUI window is left,
\* else run_event_loop.
CheckWindows ==
    /\ gui = "check"
    /\ IF by_id = {}
       THEN gui' = "returned" /\ iter' = iter
       ELSE gui' = "wait" /\ iter' = <<"wait">>
    /\ UNCHANGED <<muxvars, nextTabId, queuevars, tick_rx, by_id, ticker, ran, advanced, elapsed, sidevars>>

\* process_gui_event, Event::WindowEvent: the window's dispatch_event spawns
\* a tab into its mux window (LocalDomain::spawn). Ok is Continue; an error
\* that is no SessionTerminated is returned, and run_event_loop's callback
\* answers it with Break.
EventSpawnTab(w) ==
    /\ gui = "wait"
    /\ w \in by_id
    /\ nextTabId <= MaxTabs
    /\ Len(readers) < MaxReaders
    /\ \E reader_ok \in BOOLEAN :
         LET m == LocalDomain_spawn(MuxState, nextTabId, reader_ok, w)
         IN  /\ SetMux(m)
             /\ IF m.last.ret = "ok"
                THEN gui' = gui /\ iter' = iter
                ELSE gui' = "deque" /\ iter' = Append(iter, "deque")
    /\ nextTabId' = nextTabId + 1
    /\ UNCHANGED <<queuevars, tick_rx, by_id, ticker, ran, advanced, elapsed, sidevars>>

\* process_gui_event, Event::WindowEvent: dispatch_event fails with
\* SessionTerminated, the close of the window is scheduled; Continue.
EventWindowClosed(w) ==
    /\ gui = "wait"
    /\ w \in by_id
    /\ guiSent < MaxGuiSends
    /\ LET q == schedule_window_close(QueueState, w)
       IN  /\ ~q.blocked
           /\ SetQueues(q)
    /\ UNCHANGED <<muxvars, nextTabId, tick_rx, by_id, gui, ticker, ran, advanced, iter, elapsed, sidevars>>

\* process_gui_event with Awakened left where it is: Continue.
run_event_loop_NoBreak ==
    /\ gui = "wait"
    /\ awakened > 0
    /\ awakened' = awakened - 1
    /\ UNCHANGED <<muxvars, nextTabId, gui_rx, gui_thread_sends, guiSent, tick_rx,
                   by_id, gui, ticker, ran, advanced, iter, elapsed, sidevars>>

\* run_event_loop returns: process_gui_event met Event::Awakened => Break.
run_event_loop ==
    /\ gui = "wait"
    /\ awakened > 0
    /\ awakened' = awakened - 1
    /\ gui' = "deque"
    /\ iter' = Append(iter, "deque")
    /\ UNCHANGED <<muxvars, nextTabId, gui_rx, gui_thread_sends, guiSent, tick_rx,
                   by_id, ticker, ran, advanced, elapsed, sidevars>>

\* pop_front and its result
pop_gui_thread_send(sends) == [func |-> Head(sends), rest |-> Tail(sends)]

\* A receive that leaves the item it returns in the channel.
try_recv_Peek(rx) == [func |-> Head(rx), rest |-> rx]

\* A receive that takes the newest item of the channel.
try_recv_Newest(rx) == [func |-> rx[Len(rx)], rest |-> SubSeq(rx, 1, Len(rx) - 1)]

\* gui_rx.try_recv() on a channel that holds something: its oldest item
try_recv(rx) == [func |-> Head(rx), rest |-> Tail(rx)]

\* The first loop as if let: one item is run, then the channel's turn.
ExecDeque_IfLet ==
    /\ gui = "deque"
    /\ gui_thread_sends # <<>>
    /\ LET p == pop_gui_thread_send(gui_thread_sends)
       IN  /\ gui_thread_sends' = p.rest
           /\ RunFunc(p.func)
    /\ gui' = "chan"
    /\ iter' = Append(iter, "channel")
    /\ elapsed' = 0
    /\ UNCHANGED <<nextTabId, gui_rx, awakened, guiSent, tick_rx, ticker, sidevars>>

\* process_gui_exec, first loop: one pass of while let Some(func) = pop
ExecDeque ==
    /\ gui = "deque"
    /\ gui_thread_sends # <<>>
    /\ LET p == pop_gui_thread_send(gui_thread_sends)
       IN  /\ gui_thread_sends' = p.rest
           /\ RunFunc(p.func)
    /\ UNCHANGED <<nextTabId, gui_rx, awakened, guiSent, tick_rx, gui, ticker, iter, elapsed, sidevars>>

\* process_gui_exec, first loop: pop returned None
DequeDrained ==
    /\ gui = "deque"
    /\ gui_thread_sends = <<>>
    /\ gui' = "chan"
    /\ iter' = Append(iter, "channel")
    /\ elapsed' = 0
    /\ UNCHANGED <<muxvars, nextTabId, queuevars, tick_rx, by_id, ticker, ran, advanced, sidevars>>

\* A check of the clock that never finds the time up.
poll_expired_Never(t) == FALSE

\* start.elapsed() > MAX_POLL_LOOP_DURATION, the time counted in runs of a
\* work item: each func() of the loop takes its share of the 500 ms.
poll_expired(t) == t > MaxPollUnits

\* process_gui_exec, second loop: the time is not up and try_recv gave
\* Ok(func)
ExecChan ==
    /\ gui = "chan"
    /\ ~poll_expired(elapsed)
    /\ gui_rx # <<>>
    /\ LET r == try_recv(gui_rx)
       IN  /\ gui_rx' = r.rest
           /\ RunFunc(r.func)
    /\ elapsed' = elapsed + 1
    /\ UNCHANGED <<nextTabId, gui_thread_sends, awakened, guiSent, tick_rx, gui,
                   ticker, iter, sidevars>>

\* process_gui_exec, second loop: the time is not up and try_recv gave Empty
ChanDrained ==
    /\ gui = "chan"
    /\ ~poll_expired(elapsed)
    /\ gui_rx = <<>>
    /\ gui' = "tick"
    /\ iter' = Append(iter, "tick")
    /\ elapsed' = 0
    /\ UNCHANGED <<muxvars, nextTabId, queuevars, tick_rx, by_id, ticker, ran, advanced, sidevars>>

\* process_gui_exec, second loop: start.elapsed() is above
\* MAX_POLL_LOOP_DURATION (at once, the thread having been kept off the
\* processor, or after some work items), or is an error (the clock went
\* backwards)
ChanTimeout ==
    /\ gui = "chan"
    /\ gui' = "tick"
    /\ iter' = Append(iter, "tick")
    /\ elapsed' = 0
    /\ UNCHANGED <<muxvars, nextTabId, queuevars, tick_rx, by_id, ticker, ran, advanced, sidevars>>

\* process_tick, a tick received: test_for_child_exit schedules the close of
\* the windows whose own test says their child is gone, in the order the
\* map yields them; do_paint changes nothing kept here.
ProcessTick ==
    /\ gui = "tick"
    /\ tick_rx > 0
    /\ tick_rx' = tick_rx - 1
    /\ \E exited \in SUBSET by_id :
         \E window_ids \in Orders(exited) :
            LET q == schedule_closes(QueueState, window_ids)
            IN  /\ ~q.blocked
                /\ q.guiSent <= MaxGuiSends
                /\ SetQueues(q)
    /\ UNCHANGED <<muxvars, nextTabId, by_id, gui, ticker, ran, advanced, iter, elapsed, sidevars>>

\* process_tick: try_recv gave Empty; back to the top of the loop
TickDrained ==
    /\ gui = "tick"
    /\ tick_rx = 0
    /\ gui' = "check"
    /\ iter' = <<>>
    /\ UNCHANGED <<muxvars, nextTabId, queuevars, tick_rx, by_id, ticker, ran, advanced, elapsed, sidevars>>

GuiLoop ==
    \/ CheckWindows
    \/ run_event_loop
    \/ ExecDeque
    \/ DequeDrained
    \/ ExecChan
    \/ ChanDrained
    \/ ChanTimeout
    \/ ProcessTick
    \/ TickDrained

\* ------------------------------------------------------- specifications
\* The program: windows and tabs spawned, ptys read, the GUI loop serving.
Next ==
    \/ SpawnWindow
    \/ \E w \in WindowIds : EventSpawnTab(w)
    \/ \E w \in WindowIds : EventWindowClosed(w)
    \/ GuiLoop
    \/ TickerSend
    \/ TickerWakeup
    \/ \E i \in 1..MaxReaders : ReaderRead(i, readers[i].nread < MaxChunks)
    \/ \E i \in 1..MaxReaders : ReaderSend(i)
    \/ \E i \in 1..MaxReaders : ReaderWakeup(i)

Spec == Init /\ [][Next]_vars

\* The same program with the ptys yielding LiveChunks chunks between them.
NextLive ==
    \/ SpawnWindow
    \/ \E w \in WindowIds : EventSpawnTab(w)
    \/ \E w \in WindowIds : EventWindowClosed(w)
    \/ GuiLoop
    \/ TickerSend
    \/ TickerWakeup
    \/ \E i \in 1..MaxReaders : ReaderRead(i, ChunksRead(Len(readers)) < LiveChunks)
    \/ \E i \in 1..MaxReaders : ReaderSend(i)
    \/ \E i \in 1..MaxReaders : ReaderWakeup(i)

\* The scheduling the threads get: the GUI thread keeps running its loop; a
\* drain of the channel does not time out before its first receive every
\* time; ticks are TICK_INTERVAL apart, so process_tick does come to find
\* tick_rx empty and returns; the tick thread keeps ticking; a reader thread
\* blocked in send gets its turn when room is made again and again, and is
\* not stopped before its wakeup call.
Fairness ==
    /\ WF_vars(GuiLoop)
    /\ SF_vars(ExecChan)
    /\ []<>(gui # "tick")
    /\ WF_vars(TickerSend)
    /\ WF_vars(TickerWakeup)
    /\ \A i \in 1..MaxReaders : SF_vars(ReaderSend(i)) /\ WF_vars(ReaderWakeup(i))

FairSpec == Init /\ [][NextLive]_vars /\ Fairness

\* One window whose pty yields a burst of chunks.
NextBurst ==
    \/ SpawnWindow
    \/ \E w \in WindowIds : EventWindowClosed(w)
    \/ GuiLoop
    \/ TickerSend
    \/ TickerWakeup
    \/ \E i \in 1..MaxReaders : ReaderRead(i, readers[i].nread < BurstChunks)
    \/ \E i \in 1..MaxReaders : ReaderSend(i)
    \/ \E i \in 1..MaxReaders : ReaderWakeup(i)

SpecBurst == Init /\ [][NextBurst]_vars

\* A tab's child has exited (Child::try_wait returned a status) while the
\* GUI thread tests for it in process_tick: the remove_tab of the tab is
\* posted to the executor.
ChildExited(t) ==
    /\ gui = "tick"
    /\ tick_rx > 0
    /\ t \in tabs
    /\ guiSent < MaxGuiSends
    /\ LET q == GuiSender_send(QueueState, "remove", t)
       IN  /\ ~q.blocked
           /\ SetQueues(q)
    /\ UNCHANGED <<muxvars, nextTabId, tick_rx, by_id, gui, ticker, ran, advanced, iter, elapsed, sidevars>>

\* The program of NextLive with the exits of children seen by the GUI
\* thread.
NextRace ==
    \/ NextLive
    \/ \E t \in TabIds : ChildExited(t)

SpecRace == Init /\ [][NextRace]_vars

\* --------------------------------------------------- the Mux interface
\* The Mux operations called directly, with any arguments.
guivars == <<nextTabId, gui_rx, gui_thread_sends, tick_rx, awakened, by_id, gui,
             ticker, ran, advanced, guiSent, iter, elapsed, sidevars>>

CallAddTab ==
    \E t \in TabIds, reader_ok \in BOOLEAN :
        /\ reader_ok => Len(readers) < MaxReaders
        /\ SetMux(add_tab(MuxState, t, reader_ok))
        /\ UNCHANGED guivars

CallAddTabToWindow ==
    \E t \in TabIds, w \in WindowIds :
        /\ w \in DOMAIN windows => Len(windows[w]) < MaxWindowLen
        /\ SetMux(add_tab_to_window(MuxState, t, w))
        /\ UNCHANGED guivars

CallRemoveTab ==
    \E t \in TabIds :
        /\ SetMux(remove_tab(MuxState, t))
        /\ UNCHANGED guivars

CallNewEmptyWindow ==
    /\ nextWindowId <= MaxWindows
    /\ SetMux(new_empty_window(MuxState))
    /\ UNCHANGED guivars

MuxNext ==
    \/ CallAddTab
    \/ CallAddTabToWindow
    \/ CallRemoveTab
    \/ CallNewEmptyWindow

SpecMux == Init /\ [][MuxNext]_vars

\* ---------------------------------------------------------- the codec
\* A byte is a number in 0..255 and a stream a sequence of bytes. A u64 is
\* kept as its groups of 7 bits, lowest first: nine groups and bit 63.
U64Groups == 10

RECURSIVE Group(_, _)
Group(n, i) == IF i = 1 THEN n % 128 ELSE Group(n \div 128, i - 1)

\* `n as u64` for a length n
U64(n) == [i \in 1..U64Groups |-> Group(n, i)]

RECURSIVE BitOr(_, _)
BitOr(x, y) ==
    IF x = 0 THEN y
    ELSE IF y = 0 THEN x
    ELSE (IF x % 2 = 1 \/ y % 2 = 1 THEN 1 ELSE 0) + 2 * BitOr(x \div 2, y \div 2)

RECURSIVE BitAnd(_, _)
BitAnd(x, y) ==
    IF x = 0 \/ y = 0 THEN 0
    ELSE (IF x % 2 = 1 /\ y % 2 = 1 THEN 1 ELSE 0) + 2 * BitAnd(x \div 2, y \div 2)

\* a | b, a & b and !a on u64
u64_or(a, b) == [i \in 1..U64Groups |-> BitOr(a[i], b[i])]
u64_and(a, b) == [i \in 1..U64Groups |-> BitAnd(a[i], b[i])]
u64_not(a) == [i \in 1..U64Groups |-> IF i = U64Groups THEN 1 - a[i] ELSE 127 - a[i]]

\* const COMPRESSED_MASK: u64 = 1 << 63
COMPRESSED_MASK == [i \in 1..U64Groups |-> IF i = U64Groups THEN 1 ELSE 0]

\* `len as usize` when the value is below 2^28; -1 stands for a larger one.
as_usize(v) ==
    IF \E i \in 5..U64Groups : v[i] # 0 THEN -1
    ELSE v[1] + 128 * (v[2] + 128 * (v[3] + 128 * v[4]))

\* The highest group of v that is not zero (1 for the value 0).
TopGroup(v) ==
    IF \A i \in 1..U64Groups : v[i] = 0 THEN 1
    ELSE CHOOSE i \in 1..U64Groups : v[i] # 0 /\ \A j \in (i + 1)..U64Groups : v[j] = 0

\* leb128::write::unsigned: the groups of 7 bits lowest first, each but the
\* last with the continuation bit set.
leb128_write_unsigned(v) ==
    [i \in 1..TopGroup(v) |-> IF i < TopGroup(v) THEN v[i] + 128 ELSE v[i]]

\* encoded_length: what leb128::write::unsigned returns on a NullWrite
encoded_length(v) == Len(leb128_write_unsigned(v))

\* leb128::read::unsigned and read_u64 around it: the loop, at its i-th byte
\* with the groups read so far in acc. Overflow is its error for a byte at
\* shift 63 that is neither 0 nor 1, and a stream that ends is read_exact's.
RECURSIVE leb128_read_from(_, _, _)
leb128_read_from(r, i, acc) ==
    IF r = <<>> THEN [ok |-> FALSE, err |-> "UnexpectedEof"]
    ELSE IF i = U64Groups /\ Head(r) \notin {0, 1} THEN [ok |-> FALSE, err |-> "Overflow"]
    ELSE LET result == [acc EXCEPT ![i] = Head(r) % 128]
         IN  IF Head(r) < 128
             THEN [ok |-> TRUE, value |-> result, rest |-> Tail(r)]
             ELSE leb128_read_from(Tail(r), i + 1, result)

read_u64(r) == leb128_read_from(r, 1, U64(0))

\* encode_raw with ident written before serial.
encode_raw_IdentFirst(ident, serial, data, is_compressed) ==
    LET len == Len(data) + encoded_length(ident) + encoded_length(serial)
        masked_len == IF is_compressed THEN u64_or(U64(len), COMPRESSED_MASK)
                      ELSE U64(len)
    IN  leb128_write_unsigned(masked_len) \o leb128_write_unsigned(ident)
            \o leb128_write_unsigned(serial) \o data

\* encode_raw: the bytes it hands to w.write_all
encode_raw(ident, serial, data, is_compressed) ==
    LET len == Len(data) + encoded_length(ident) + encoded_length(serial)
        masked_len == IF is_compressed THEN u64_or(U64(len), COMPRESSED_MASK)
                      ELSE U64(len)
    IN  leb128_write_unsigned(masked_len) \o leb128_write_unsigned(serial)
            \o leb128_write_unsigned(ident) \o data

\* decode_raw that takes the whole rest of the stream as the data.
decode_raw_ToEnd(r) ==
    LET l == read_u64(r) IN
    IF ~l.ok THEN [kind |-> "err", err |-> l.err] ELSE
    LET s1 == read_u64(l.rest) IN
    IF ~s1.ok THEN [kind |-> "err", err |-> s1.err] ELSE
    LET i1 == read_u64(s1.rest) IN
    IF ~i1.ok THEN [kind |-> "err", err |-> i1.err] ELSE
    [kind |-> "ok", ident |-> i1.value, serial |-> s1.value, data |-> i1.rest,
     is_compressed |-> u64_and(l.value, COMPRESSED_MASK) # U64(0), rest |-> <<>>]

\* decode_raw: Decoded and what is left of the stream, or the io::Error of a
\* read; "panic" is the subtraction of data_len going below zero (an
\* overflow panic, or in a build without the check a length vec! refuses),
\* and "alloc" is a data_len of 2^28 or more handed to vec!.
decode_raw(r) ==
    LET l == read_u64(r) IN
    IF ~l.ok THEN [kind |-> "err", err |-> l.err] ELSE
    LET is_compressed == u64_and(l.value, COMPRESSED_MASK) # U64(0)
        len == IF is_compressed THEN u64_and(l.value, u64_not(COMPRESSED_MASK))
               ELSE l.value
        s1 == read_u64(l.rest)
    IN
    IF ~s1.ok THEN [kind |-> "err", err |-> s1.err] ELSE
    LET i1 == read_u64(s1.rest) IN
    IF ~i1.ok THEN [kind |-> "err", err |-> i1.err] ELSE
    LET header == encoded_length(i1.value) + encoded_length(s1.value) IN
    IF as_usize(len) = -1 THEN [kind |-> "alloc"]
    ELSE IF as_usize(len) < header THEN [kind |-> "panic"]
    ELSE LET data_len == as_usize(len) - header IN
         IF Len(i1.rest) < data_len THEN [kind |-> "err", err |-> "UnexpectedEof"]
         ELSE [kind |-> "ok", ident |-> i1.value, serial |-> s1.value,
               data |-> SubSeq(i1.rest, 1, data_len),
               is_compressed |-> is_compressed,
               rest |-> SubSeq(i1.rest, data_len + 1, Len(i1.rest))]

\* The u64 values frames are made of: one-byte and two-byte values, both
\* sides of 127/128, 0xdeadbeef, 1 << 63 and u64::MAX.
U64Samples ==
    {U64(0), U64(1), U64(66), U64(127), U64(128), U64(129), U64(16384),
     <<111, 125, 54, 117, 13, 0, 0, 0, 0, 0>>,
     COMPRESSED_MASK,
     [i \in 1..U64Groups |-> IF i = U64Groups THEN 1 ELSE 127]}

\* b"hello"
Hello == <<104, 101, 108, 108, 111>>

\* n bytes b'a'
Fill(n) == [i \in 1..n |-> 97]

\* The payloads of the frames: short ones, and lengths that take the frame
\* length over 127.
Payloads == {Hello} \cup {Fill(n) : n \in {0, 1} \cup ((MaxPayload - 8)..MaxPayload)}

\* What follows the frame in the stream.
Tails == {<<>>, <<8, 66>>}

\* A frame to encode: the arguments of encode_raw, and what the stream
\* holds after it.
RawFrames ==
    [pc : {"raw"}, ident : U64Samples, serial : U64Samples, data : Payloads,
     is_compressed : BOOLEAN, tail : Tails]

\* Streams as a peer can send them: the frame of ident 0x81, serial 0x42
\* and "hello" with its length byte set to every value from 0 to one more
\* than the frame holds, with the compressed bit on a length of 1, and cut
\* after each of its bytes.
ReceivedStreams ==
    LET frame == encode_raw(U64(129), U64(66), Hello, FALSE) IN
    {<<n>> \o Tail(frame) : n \in 0..Len(frame)}
    \cup {leb128_write_unsigned(u64_or(U64(1), COMPRESSED_MASK)) \o Tail(frame)}
    \cup {SubSeq(frame, 1, k) : k \in 0..Len(frame)}

WireInputs == {[pc |-> "wire", from |-> [pc |-> "stream"], wire |-> w] : w \in ReceivedStreams}

\* encode_raw(ident, serial, data, is_compressed, &mut encoded)
CodecEncodeRaw ==
    /\ codec.pc = "raw"
    /\ codec' = [pc |-> "wire", from |-> codec,
                 wire |-> encode_raw(codec.ident, codec.serial, codec.data,
                                     codec.is_compressed) \o codec.tail]
    /\ UNCHANGED <<progvars, client, ids, quoting>>

\* decode_raw(encoded.as_slice())
CodecDecodeRaw ==
    /\ codec.pc = "wire"
    /\ codec' = [pc |-> "decoded", from |-> codec.from, wire |-> codec.wire,
                 out |-> decode_raw(codec.wire)]
    /\ UNCHANGED <<progvars, client, ids, quoting>>

\* const COMPRESS_THRESH: usize = 32
COMPRESS_THRESH == 32

\* The table of pdu! with Ping and Pong in each other's place.
PduTable_Swapped ==
    [ErrorResponse |-> 0, Ping |-> 2, Pong |-> 1, ListTabs |-> 3,
     ListTabsResponse |-> 4, GetCoarseTabRenderableData |-> 5,
     GetCoarseTabRenderableDataResponse |-> 6, Spawn |-> 7, SpawnResponse |-> 8,
     WriteToTab |-> 9, UnitResponse |-> 10, SendKeyDown |-> 11,
     SendMouseEvent |-> 12, SendPaste |-> 13, Resize |-> 14,
     SendMouseEventResponse |-> 17]

\* pdu! { ... }: the identifying number of each struct
PduTable ==
    [ErrorResponse |-> 0, Ping |-> 1, Pong |-> 2, ListTabs |-> 3,
     ListTabsResponse |-> 4, GetCoarseTabRenderableData |-> 5,
     GetCoarseTabRenderableDataResponse |-> 6, Spawn |-> 7, SpawnResponse |-> 8,
     WriteToTab |-> 9, UnitResponse |-> 10, SendKeyDown |-> 11,
     SendMouseEvent |-> 12, SendPaste |-> 13, Resize |-> 14,
     SendMouseEventResponse |-> 17]

\* The fields of each struct as the serializer meets them: a number
\* ("usize", also the u16 of PtySize), a bool, a String or Vec<u8>
\* ("bytes"), an Option<String> ("opt_bytes"). The structs made of types of
\* other crates are "opaque": their value is kept as the bytes serde makes
\* of it.
PduFields ==
    [ErrorResponse |-> <<"bytes">>, Ping |-> <<>>, Pong |-> <<>>, ListTabs |-> <<>>,
     ListTabsResponse |-> <<"opaque">>,
     GetCoarseTabRenderableData |-> <<"usize", "bool">>,
     GetCoarseTabRenderableDataResponse |-> <<"opaque">>, Spawn |-> <<"opaque">>,
     SpawnResponse |-> <<"usize", "usize">>, WriteToTab |-> <<"usize", "bytes">>,
     UnitResponse |-> <<>>, SendKeyDown |-> <<"opaque">>,
     SendMouseEvent |-> <<"opaque">>, SendPaste |-> <<"usize", "bytes">>,
     Resize |-> <<"usize", "usize", "usize", "usize", "usize">>,
     SendMouseEventResponse |-> <<"opt_bytes">>]

\* A field value is a sequence of numbers: <<n>> for a number, <<0>> or <<1>>
\* for a bool, the bytes of a string, <<0>> for None and <<1>> \o bytes for
\* Some. varbincode writes numbers as varints, a bool as a byte, bytes
\* behind their length, an Option behind its tag.
ser_field(type, value) ==
    CASE type = "usize" -> leb128_write_unsigned(U64(value[1]))
      [] type = "bool" -> value
      [] type = "bytes" -> leb128_write_unsigned(U64(Len(value))) \o value
      [] type = "opt_bytes" ->
            IF value[1] = 0 THEN <<0>>
            ELSE <<1>> \o leb128_write_unsigned(U64(Len(value) - 1)) \o Tail(value)
      [] type = "opaque" -> value

RECURSIVE ser_fields(_, _)
ser_fields(types, body) ==
    IF types = <<>> THEN <<>>
    ELSE ser_field(Head(types), Head(body)) \o ser_fields(Tail(types), Tail(body))

\* The bytes at the head of r behind their varint length.
de_bytes(r) ==
    LET n == read_u64(r) IN
    IF ~n.ok \/ as_usize(n.value) = -1 \/ as_usize(n.value) > Len(n.rest)
    THEN [ok |-> FALSE]
    ELSE [ok |-> TRUE, value |-> SubSeq(n.rest, 1, as_usize(n.value)),
          rest |-> SubSeq(n.rest, as_usize(n.value) + 1, Len(n.rest))]

de_field(type, r) ==
    CASE type = "usize" ->
            LET n == read_u64(r) IN
            IF ~n.ok \/ as_usize(n.value) = -1 THEN [ok |-> FALSE]
            ELSE [ok |-> TRUE, value |-> <<as_usize(n.value)>>, rest |-> n.rest]
      [] type = "bool" ->
            IF r = <<>> \/ Head(r) \notin {0, 1} THEN [ok |-> FALSE]
            ELSE [ok |-> TRUE, value |-> <<Head(r)>>, rest |-> Tail(r)]
      [] type = "bytes" -> de_bytes(r)
      [] type = "opt_bytes" ->
            IF r = <<>> \/ Head(r) \notin {0, 1} THEN [ok |-> FALSE]
            ELSE IF Head(r) = 0 THEN [ok |-> TRUE, value |-> <<0>>, rest |-> Tail(r)]
            ELSE LET b == de_bytes(Tail(r)) IN
                 IF ~b.ok THEN b
                 ELSE [ok |-> TRUE, value |-> <<1>> \o b.value, rest |-> b.rest]
      [] type = "opaque" -> [ok |-> TRUE, value |-> r, rest |-> <<>>]

RECURSIVE de_fields(_, _)
de_fields(types, r) ==
    IF types = <<>> THEN [ok |-> TRUE, body |-> <<>>]
    ELSE LET f == de_field(Head(types), r) IN
         IF ~f.ok THEN [ok |-> FALSE]
         ELSE LET t == de_fields(Tail(types), f.rest) IN
              IF ~t.ok THEN t ELSE [ok |-> TRUE, body |-> <<f.value>> \o t.body]

\* zstd is a lossless coder outside this repository; what the codec relies
\* on is that it shortens repetitive input, lengthens input without
\* repetition, and refuses what it did not write. It is modelled by a frame
\* of its magic number followed by (run length, byte) pairs.
ZstdMagic == <<40, 181, 47, 253>>

RunLength(x) ==
    LET cap == IF Len(x) < 255 THEN Len(x) ELSE 255 IN
    CHOOSE n \in 1..cap :
        /\ \A i \in 1..n : x[i] = x[1]
        /\ n = cap \/ x[n + 1] # x[1]

RECURSIVE zstd_runs(_)
zstd_runs(x) ==
    IF x = <<>> THEN <<>>
    ELSE <<RunLength(x), Head(x)>> \o zstd_runs(SubSeq(x, RunLength(x) + 1, Len(x)))

zstd_encode(x) == ZstdMagic \o zstd_runs(x)

RECURSIVE zstd_expand(_)
zstd_expand(c) ==
    IF c = <<>> THEN [ok |-> TRUE, value |-> <<>>]
    ELSE IF Len(c) < 2 \/ c[1] = 0 THEN [ok |-> FALSE]
    ELSE LET t == zstd_expand(SubSeq(c, 3, Len(c))) IN
         IF ~t.ok THEN t
         ELSE [ok |-> TRUE, value |-> [i \in 1..c[1] |-> c[2]] \o t.value]

zstd_decode(c) ==
    IF Len(c) < Len(ZstdMagic) \/ SubSeq(c, 1, Len(ZstdMagic)) # ZstdMagic
    THEN [ok |-> FALSE]
    ELSE zstd_expand(SubSeq(c, Len(ZstdMagic) + 1, Len(c)))

\* serialize with the threshold test turned into "shorter than".
serialize_Below(types, body) ==
    LET uncompressed == ser_fields(types, body)
        compressed == zstd_encode(uncompressed)
    IN  IF Len(uncompressed) < COMPRESS_THRESH
        THEN [data |-> uncompressed, is_compressed |-> FALSE]
        ELSE IF Len(compressed) < Len(uncompressed)
             THEN [data |-> compressed, is_compressed |-> TRUE]
             ELSE [data |-> uncompressed, is_compressed |-> FALSE]

\* serialize(t): the varbincode bytes as they are when they are no longer
\* than COMPRESS_THRESH, else the shorter of them and their compression, the
\* uncompressed bytes winning a tie.
serialize(types, body) ==
    LET uncompressed == ser_fields(types, body)
        compressed == zstd_encode(uncompressed)
    IN  IF Len(uncompressed) <= COMPRESS_THRESH
        THEN [data |-> uncompressed, is_compressed |-> FALSE]
        ELSE IF Len(compressed) < Len(uncompressed)
             THEN [data |-> compressed, is_compressed |-> TRUE]
             ELSE [data |-> uncompressed, is_compressed |-> FALSE]

\* deserialize(r, is_compressed): the decoder reads from the decompressor as
\* the fields ask for bytes, so a struct without fields reads nothing.
deserialize(types, r, is_compressed) ==
    IF types = <<>> THEN [ok |-> TRUE, body |-> <<>>]
    ELSE IF is_compressed
         THEN LET d == zstd_decode(r) IN
              IF ~d.ok THEN [ok |-> FALSE] ELSE de_fields(types, d.value)
         ELSE de_fields(types, r)

\* Pdu::encode with an arm for Invalid that writes a frame of its ident and
\* no payload.
Pdu_encode_InvalidAsFrame(pdu, serial) ==
    IF pdu.name = "Invalid"
    THEN [ok |-> TRUE, bytes |-> encode_raw(pdu.ident, serial, <<>>, FALSE)]
    ELSE LET s == serialize(PduFields[pdu.name], pdu.body) IN
         [ok |-> TRUE,
          bytes |-> encode_raw(U64(PduTable[pdu.name]), serial, s.data, s.is_compressed)]

\* Pdu::encode(w, serial): what is written to w, if anything.
Pdu_encode(pdu, serial) ==
    IF pdu.name = "Invalid"
    THEN [ok |-> FALSE, err |-> "attempted to serialize Pdu::Invalid", bytes |-> <<>>]
    ELSE LET s == serialize(PduFields[pdu.name], pdu.body) IN
         [ok |-> TRUE,
          bytes |-> encode_raw(U64(PduTable[pdu.name]), serial, s.data, s.is_compressed)]

\* Pdu::decode with an error in place of the catch-all arm.
Pdu_decode_UnknownIsError(r) ==
    LET decoded == decode_raw(r) IN
    IF decoded.kind # "ok" THEN decoded
    ELSE IF \E name \in DOMAIN PduTable : U64(PduTable[name]) = decoded.ident
    THEN LET name == CHOOSE n \in DOMAIN PduTable : U64(PduTable[n]) = decoded.ident
             d == deserialize(PduFields[name], decoded.data, decoded.is_compressed)
         IN  IF ~d.ok THEN [kind |-> "err", err |-> "deserialize"]
             ELSE [kind |-> "ok", serial |-> decoded.serial,
                   pdu |-> [name |-> name, body |-> d.body]]
    ELSE [kind |-> "err", err |-> "unknown ident"]

\* Pdu::decode(r)
Pdu_decode(r) ==
    LET decoded == decode_raw(r) IN
    IF decoded.kind # "ok" THEN decoded
    ELSE IF \E name \in DOMAIN PduTable : U64(PduTable[name]) = decoded.ident
    THEN LET name == CHOOSE n \in DOMAIN PduTable : U64(PduTable[n]) = decoded.ident
             d == deserialize(PduFields[name], decoded.data, decoded.is_compressed)
         IN  IF ~d.ok THEN [kind |-> "err", err |-> "deserialize"]
             ELSE [kind |-> "ok", serial |-> decoded.serial,
                   pdu |-> [name |-> name, body |-> d.body]]
    ELSE [kind |-> "ok", serial |-> decoded.serial,
          pdu |-> [name |-> "Invalid", ident |-> decoded.ident]]

\* Bytes without repetition.
Ramp(n) == [i \in 1..n |-> i]

\* The longest data of a WriteToTab that is tried; the serialized struct is
\* two bytes longer.
MaxData == 32

DataSamples ==
    {Hello} \cup {Fill(n) : n \in (MaxData - 4)..MaxData}
            \cup {Ramp(n) : n \in (MaxData - 4)..MaxData}

\* The PDUs that are encoded: every struct of the table, WriteToTab with
\* data on both sides of the threshold, and Invalid.
PduSamples ==
    {[name |-> n, body |-> <<>>] : n \in {"Ping", "Pong", "ListTabs", "UnitResponse"}}
    \cup {[name |-> n, body |-> <<d>>] :
            n \in {"ErrorResponse", "ListTabsResponse",
                   "GetCoarseTabRenderableDataResponse", "Spawn", "SendKeyDown",
                   "SendMouseEvent"},
            d \in {Hello, Fill(COMPRESS_THRESH + 1)}}
    \cup {[name |-> "GetCoarseTabRenderableData", body |-> <<<<t>>, <<b>>>>] :
            t \in {0, 300}, b \in {0, 1}}
    \cup {[name |-> "SpawnResponse", body |-> <<<<t>>, <<w>>>>] : t \in {0, 7}, w \in {1, 128}}
    \cup {[name |-> n, body |-> <<<<1>>, d>>] :
            n \in {"WriteToTab", "SendPaste"}, d \in DataSamples}
    \cup {[name |-> "Resize", body |-> <<<<1>>, <<24>>, <<80>>, <<0>>, <<0>>>>]}
    \cup {[name |-> "SendMouseEventResponse", body |-> <<b>>] : b \in {<<0>>, <<1>> \o Hello}}
    \cup {[name |-> "Invalid", ident |-> i] : i \in {U64(15), U64(1)}}

PduInputs ==
    {[pc |-> "pdu", pdu |-> p, serial |-> s] :
        p \in PduSamples, s \in {U64(1), U64(64), U64(16384)}}

\* A PDU is encoded; Pdu::Invalid is refused and nothing is written.
CodecEncodePdu ==
    /\ codec.pc = "pdu"
    /\ LET e == Pdu_encode(codec.pdu, codec.serial) IN
       codec' = IF e.ok THEN [pc |-> "wire", from |-> codec, wire |-> e.bytes]
                ELSE [pc |-> "refused", from |-> codec, wire |-> e.bytes]
    /\ UNCHANGED <<progvars, client, ids, quoting>>

\* Pdu::decode reads what was written, by Pdu::encode or by encode_raw.
CodecDecodePdu ==
    /\ codec.pc = "wire"
    /\ codec' = [pc |-> "pdu_decoded", from |-> codec.from, wire |-> codec.wire,
                 out |-> Pdu_decode(codec.wire)]
    /\ UNCHANGED <<progvars, client, ids, quoting>>

\* The codec on its own: a frame or a PDU is encoded, and what was written
\* is decoded.
InitCodec ==
    /\ InitProgram
    /\ client = NoClient
    /\ ids = NoIds
    /\ quoting = NoArg
    /\ codec \in RawFrames \cup PduInputs \cup WireInputs

NextCodec ==
    \/ CodecEncodeRaw
    \/ CodecDecodeRaw
    \/ CodecEncodePdu
    \/ CodecDecodePdu

SpecCodec == InitCodec /\ [][NextCodec]_vars

\* ------------------------------------------------- ClientTab polling

\* const POLL_INTERVAL: Duration = Duration::from_millis(50)
POLL_INTERVAL == 50

\* Milliseconds between two readings of the clock, the last reading, and the
\* number of requests a tab is let to issue.
ClockStep == 25
MaxClock == 150
MaxRequests == 3

None == [some |-> FALSE]
Some(v) == [some |-> TRUE, value |-> v]

\* GetCoarseTabRenderableDataResponse, as far as the tab looks into it.
Responses == {[dirty_lines |-> <<>>], [dirty_lines |-> <<0>>]}

\* A Future: not fulfilled yet, fulfilled with a response, or with an error.
Pending == [state |-> "pending", result |-> [dirty_lines |-> <<>>]]
Ready(r) == [state |-> "ok", result |-> r]
Failed == [state |-> "err", result |-> [dirty_lines |-> <<>>]]
Future_is_ready(f) == f.state # "pending"

\* ClientTab::new at time `now`: the RenderableState, the requests handed to
\* the client and the requests the client has not answered yet.
ClientTab_new(now) ==
    [coarse |-> None, last_poll |-> now, dirty_all |-> TRUE, dead |-> FALSE,
     poll_future |-> None, sent |-> <<>>, inflight |-> 0]

\* client.get_coarse_tab_renderable_data(GetCoarseTabRenderableData{..})
get_coarse_tab_renderable_data(s, now, dirty_all) ==
    [s EXCEPT !.sent = Append(@, [at |-> now, dirty_all |-> dirty_all]),
              !.inflight = @ + 1,
              !.poll_future = Some(Pending)]

\* RenderableState::poll without the test for a poll in progress.
poll_NoPendingTest(s, now) ==
    LET ready == s.poll_future.some /\ Future_is_ready(s.poll_future.value) IN
    IF ready /\ s.poll_future.value.state = "err"
    THEN [ok |-> FALSE, installed |-> FALSE, s |-> [s EXCEPT !.poll_future = None]]
    ELSE LET s1 == IF ready
                   THEN [s EXCEPT !.poll_future = None,
                                  !.coarse = Some(s.poll_future.value.result),
                                  !.last_poll = now]
                   ELSE s
         IN  IF ~s1.dirty_all /\ now - s1.last_poll < POLL_INTERVAL
             THEN [ok |-> TRUE, installed |-> ready, s |-> s1]
             ELSE [ok |-> TRUE, installed |-> ready,
                   s |-> [get_coarse_tab_renderable_data(s1, now, s1.dirty_all)
                             EXCEPT !.dirty_all = FALSE]]

\* RenderableState::poll with the interval test made whatever dirty_all is.
poll_AlwaysWaits(s, now) ==
    LET ready == s.poll_future.some /\ Future_is_ready(s.poll_future.value) IN
    IF ready /\ s.poll_future.value.state = "err"
    THEN [ok |-> FALSE, installed |-> FALSE, s |-> [s EXCEPT !.poll_future = None]]
    ELSE LET s1 == IF ready
                   THEN [s EXCEPT !.poll_future = None,
                                  !.coarse = Some(s.poll_future.value.result),
                                  !.last_poll = now]
                   ELSE s
         IN  IF ~ready /\ s.poll_future.some
             THEN [ok |-> TRUE, installed |-> FALSE, s |-> s]
             ELSE IF now - s1.last_poll < POLL_INTERVAL
             THEN [ok |-> TRUE, installed |-> ready, s |-> s1]
             ELSE [ok |-> TRUE, installed |-> ready,
                   s |-> [get_coarse_tab_renderable_data(s1, now, s1.dirty_all)
                             EXCEPT !.dirty_all = FALSE]]

\* RenderableState::poll that clears dirty_all on its way out when a poll
\* is in progress.
poll_DropsDirtyAll(s, now) ==
    LET ready == s.poll_future.some /\ Future_is_ready(s.poll_future.value) IN
    IF ready /\ s.poll_future.value.state = "err"
    THEN [ok |-> FALSE, installed |-> FALSE, s |-> [s EXCEPT !.poll_future = None]]
    ELSE LET s1 == IF ready
                   THEN [s EXCEPT !.poll_future = None,
                                  !.coarse = Some(s.poll_future.value.result),
                                  !.last_poll = now]
                   ELSE s
         IN  IF ~ready /\ s.poll_future.some
             THEN [ok |-> TRUE, installed |-> FALSE, s |-> [s EXCEPT !.dirty_all = FALSE]]
             ELSE IF ~s1.dirty_all /\ now - s1.last_poll < POLL_INTERVAL
             THEN [ok |-> TRUE, installed |-> ready, s |-> s1]
             ELSE [ok |-> TRUE, installed |-> ready,
                   s |-> [get_coarse_tab_renderable_data(s1, now, s1.dirty_all)
                             EXCEPT !.dirty_all = FALSE]]

\* RenderableState::poll without the interval test.
poll_NeverWaits(s, now) ==
    LET ready == s.poll_future.some /\ Future_is_ready(s.poll_future.value) IN
    IF ready /\ s.poll_future.value.state = "err"
    THEN [ok |-> FALSE, installed |-> FALSE, s |-> [s EXCEPT !.poll_future = None]]
    ELSE LET s1 == IF ready
                   THEN [s EXCEPT !.poll_future = None,
                                  !.coarse = Some(s.poll_future.value.result),
                                  !.last_poll = now]
                   ELSE s
         IN  IF ~ready /\ s.poll_future.some
             THEN [ok |-> TRUE, installed |-> FALSE, s |-> s]
             ELSE [ok |-> TRUE, installed |-> ready,
                   s |-> [get_coarse_tab_renderable_data(s1, now, s1.dirty_all)
                             EXCEPT !.dirty_all = FALSE]]

\* RenderableState::poll at time `now`: whether it returned Ok, whether it
\* installed a response, and the state it leaves.
poll(s, now) ==
    LET ready == s.poll_future.some /\ Future_is_ready(s.poll_future.value) IN
    IF ready /\ s.poll_future.value.state = "err"
    THEN [ok |-> FALSE, installed |-> FALSE, s |-> [s EXCEPT !.poll_future = None]]
    ELSE LET s1 == IF ready
                   THEN [s EXCEPT !.poll_future = None,
                                  !.coarse = Some(s.poll_future.value.result),
                                  !.last_poll = now]
                   ELSE s
         IN  IF ~ready /\ s.poll_future.some
             THEN [ok |-> TRUE, installed |-> FALSE, s |-> s]
             ELSE IF ~s1.dirty_all /\ now - s1.last_poll < POLL_INTERVAL
             THEN [ok |-> TRUE, installed |-> ready, s |-> s1]
             ELSE [ok |-> TRUE, installed |-> ready,
                   s |-> [get_coarse_tab_renderable_data(s1, now, s1.dirty_all)
                             EXCEPT !.dirty_all = FALSE]]

\* has_dirty_lines with `dead` following the outcome of the poll.
has_dirty_lines_DeadFollowsPoll(s, now) ==
    LET p == poll(s, now)
        s2 == [p.s EXCEPT !.dead = ~p.ok]
    IN  [s |-> s2, polled |-> p,
         ret |-> s2.coarse.some /\ s2.coarse.value.dirty_lines # <<>>]

\* RenderableState::has_dirty_lines
has_dirty_lines(s, now) ==
    LET p == poll(s, now)
        s2 == IF ~p.ok THEN [p.s EXCEPT !.dead = TRUE] ELSE p.s
    IN  [s |-> s2, polled |-> p,
         ret |-> s2.coarse.some /\ s2.coarse.value.dirty_lines # <<>>]

\* RenderableState::make_all_lines_dirty
make_all_lines_dirty(s) == [s EXCEPT !.dirty_all = TRUE]

\* RenderableState::clean_dirty_lines
clean_dirty_lines(s) ==
    IF s.coarse.some THEN [s EXCEPT !.coarse.value.dirty_lines = <<>>] ELSE s

\* ClientTab::is_dead
is_dead(s) == s.dead

\* The tab of the client specification, the clock, and the call that was
\* made last.
TabState(s, now, call) == [pc |-> "tab", tab |-> s, now |-> now, last |-> call]

HasDirtyLines ==
    /\ client.pc = "tab"
    /\ LET h == has_dirty_lines(client.tab, client.now) IN
       /\ Len(h.s.sent) <= MaxRequests
       /\ client' = TabState(h.s, client.now,
                             [op |-> "has_dirty_lines", ret |-> h.ret,
                              ok |-> h.polled.ok, installed |-> h.polled.installed])
    /\ UNCHANGED <<progvars, codec, ids, quoting>>

MakeAllLinesDirty ==
    /\ client.pc = "tab"
    /\ client' = TabState(make_all_lines_dirty(client.tab), client.now,
                          [op |-> "make_all_lines_dirty", ret |-> FALSE,
                           ok |-> TRUE, installed |-> FALSE])
    /\ UNCHANGED <<progvars, codec, ids, quoting>>

CleanDirtyLines ==
    /\ client.pc = "tab"
    /\ client' = TabState(clean_dirty_lines(client.tab), client.now,
                          [op |-> "clean_dirty_lines", ret |-> FALSE,
                           ok |-> TRUE, installed |-> FALSE])
    /\ UNCHANGED <<progvars, codec, ids, quoting>>

\* The client's reader fulfils the future of the request in flight, with a
\* response or with an error.
FutureFulfilled ==
    /\ client.pc = "tab"
    /\ client.tab.poll_future.some
    /\ ~Future_is_ready(client.tab.poll_future.value)
    /\ \E f \in {Ready(r) : r \in Responses} \cup {Failed} :
          client' = TabState([client.tab EXCEPT !.poll_future = Some(f),
                                                !.inflight = @ - 1],
                             client.now,
                             [op |-> "fulfil", ret |-> FALSE, ok |-> f.state = "ok",
                              installed |-> FALSE])
    /\ UNCHANGED <<progvars, codec, ids, quoting>>

\* Time passes.
ClockAdvance ==
    /\ client.pc = "tab"
    /\ client.now + ClockStep <= MaxClock
    /\ client' = TabState(client.tab, client.now + ClockStep,
                          [op |-> "clock", ret |-> FALSE, ok |-> TRUE,
                           installed |-> FALSE])
    /\ UNCHANGED <<progvars, codec, ids, quoting>>

InitClient ==
    /\ InitProgram
    /\ codec = NoFrame
    /\ ids = NoIds
    /\ quoting = NoArg
    /\ client = TabState(ClientTab_new(0), 0,
                         [op |-> "new", ret |-> FALSE, ok |-> TRUE, installed |-> FALSE])

NextClient ==
    \/ HasDirtyLines
    \/ MakeAllLinesDirty
    \/ CleanDirtyLines
    \/ FutureFulfilled
    \/ ClockAdvance

SpecClient == InitClient /\ [][NextClient]_vars

\* ------------------------------------------------------ id allocation
\* Calls made to one allocator, and the threads that make them.
MaxAllocs == 3
AllocThreads == {GuiThread, 1}

\* AtomicUsize::fetch_add(n, Relaxed): one indivisible read-modify-write
\* that returns the value before it. The counter is a usize, and the
\* calls made here stay far below its width.
fetch_add(counter, n) == [old |-> counter, new |-> counter + n]

\* An allocator that hands out the counter and leaves it.
alloc_domain_id_NoAdd(counter) == [old |-> counter, new |-> counter]

\* alloc_domain_id() on the static DOMAIN_ID
alloc_domain_id(counter) == fetch_add(counter, 1)

\* alloc_tab_id() of mux/tab.rs, which is not part of the sources at hand:
\* by its description a process-wide atomic counter like DOMAIN_ID.
alloc_tab_id(counter) == fetch_add(counter, 1)

\* The two statics and the calls made so far, in the order the counters
\* were written.
IdState(domain_id, tab_id, calls) ==
    [pc |-> "ids", DOMAIN_ID |-> domain_id, TAB_ID |-> tab_id, calls |-> calls]

CallsTo(space) == Cardinality({i \in 1..Len(ids.calls) : ids.calls[i].space = space})

\* A thread calls alloc_domain_id (LocalDomain::new).
AllocDomainId(thread) ==
    /\ ids.pc = "ids"
    /\ CallsTo("domain") < MaxAllocs
    /\ LET a == alloc_domain_id(ids.DOMAIN_ID) IN
       ids' = IdState(a.new, ids.TAB_ID,
                      Append(ids.calls, [space |-> "domain", thread |-> thread,
                                         id |-> a.old, by |-> "LocalDomain"]))
    /\ UNCHANGED <<progvars, codec, client, quoting>>

\* A thread makes a tab: ClientTab::new takes its local_tab_id from
\* alloc_tab_id, as every other kind of tab takes its id.
AllocTabId(thread, by) ==
    /\ ids.pc = "ids"
    /\ CallsTo("tab") < MaxAllocs
    /\ LET a == alloc_tab_id(ids.TAB_ID) IN
       ids' = IdState(ids.DOMAIN_ID, a.new,
                      Append(ids.calls, [space |-> "tab", thread |-> thread,
                                         id |-> a.old, by |-> by]))
    /\ UNCHANGED <<progvars, codec, client, quoting>>

InitIds ==
    /\ InitProgram
    /\ codec = NoFrame
    /\ client = NoClient
    /\ quoting = NoArg
    /\ ids = IdState(0, 0, <<>>)

NextIds ==
    \/ \E thread \in AllocThreads : AllocDomainId(thread)
    \/ \E thread \in AllocThreads, by \in {"ClientTab", "LocalTab"} : AllocTabId(thread, by)

SpecIds == InitIds /\ [][NextIds]_vars

\* ------------------------------------------------- ClientTab requests
\* PDUs a ClientTab is let to send.
MaxSent == 3

\* A request as the client is handed it: the struct and its tab_id.
Request(name, tab_id) == [name |-> name, tab_id |-> tab_id]

\* ClientTab::new(client, remote_tab_id), the local id being the one
\* alloc_tab_id returned: the writer and the renderable state get the remote
\* id.
ClientTab(local_tab_id, remote_tab_id) ==
    [pc |-> "clienttab",
     local_tab_id |-> local_tab_id,
     remote_tab_id |-> remote_tab_id,
     writer |-> [remote_tab_id |-> remote_tab_id],
     renderable |-> [remote_tab_id |-> remote_tab_id, tab |-> ClientTab_new(0)],
     sent |-> <<>>,
     last |-> [op |-> "new", ret |-> 0]]

Sends(c, op, request, ret) ==
    [c EXCEPT !.sent = Append(@, request), !.last = [op |-> op, ret |-> ret]]

\* Tab::tab_id
tab_id(c) == c.local_tab_id

\* Tab::send_paste
send_paste(c) == Sends(c, "send_paste", Request("SendPaste", c.remote_tab_id), 0)

\* Tab::resize that names the tab by its local id.
resize_LocalId(c) == Sends(c, "resize", Request("Resize", c.local_tab_id), 0)

\* Tab::resize
resize(c) == Sends(c, "resize", Request("Resize", c.remote_tab_id), 0)

\* Tab::key_down
key_down(c) == Sends(c, "key_down", Request("SendKeyDown", c.remote_tab_id), 0)

\* Tab::mouse_event: the request, then the wait for its response (ok: it
\* came).
mouse_event(c, ok) ==
    Sends(c, "mouse_event", Request("SendMouseEvent", c.remote_tab_id), IF ok THEN 0 ELSE -1)

\* TabWriter::write: the request, then the wait for its response.
TabWriter_write(c, ok) ==
    Sends(c, "write", Request("WriteToTab", c.writer.remote_tab_id), IF ok THEN 0 ELSE -1)

\* has_dirty_lines on the tab's renderer: what poll issues is a
\* GetCoarseTabRenderableData for the state's remote_tab_id.
renderer_has_dirty_lines(c) ==
    LET h == has_dirty_lines(c.renderable.tab, 0)
        issued == Len(h.s.sent) > Len(c.renderable.tab.sent)
        c1 == [c EXCEPT !.renderable.tab = h.s,
                        !.last = [op |-> "has_dirty_lines", ret |-> 0]]
    IN  IF issued
        THEN [c1 EXCEPT !.sent = Append(@, Request("GetCoarseTabRenderableData",
                                                   c.renderable.remote_tab_id))]
        ELSE c1

ClientTabCall ==
    /\ client.pc = "clienttab"
    /\ Len(client.sent) < MaxSent
    /\ \E ok \in BOOLEAN :
         client' \in {send_paste(client), resize(client), key_down(client),
                      mouse_event(client, ok), TabWriter_write(client, ok),
                      renderer_has_dirty_lines(client)}
    /\ UNCHANGED <<progvars, codec, ids, quoting>>

ClientTabId ==
    /\ client.pc = "clienttab"
    /\ client' = [client EXCEPT !.last = [op |-> "tab_id", ret |-> tab_id(client)]]
    /\ UNCHANGED <<progvars, codec, ids, quoting>>

InitClientTab ==
    /\ InitProgram
    /\ codec = NoFrame
    /\ ids = NoIds
    /\ quoting = NoArg
    /\ \E l \in 0..MaxTabs, r \in 0..MaxTabs : client = ClientTab(l, r)

NextClientTab == ClientTabCall \/ ClientTabId

SpecClientTab == InitClientTab /\ [][NextClientTab]_vars

\* -------------------------------------------- Windows command line
\* UTF-16 units as numbers: the five that call for quotes, the backslash,
\* and a letter.
Space == 32
Tab == 9
Newline == 10
VerticalTab == 11
Quote == 34
Backslash == 92
LetterA == 97
LetterB == 98
LetterC == 99

\* Units of the longest argument tried in full.
MaxArgLen == 4

\* n backslashes
Backslashes(n) == [k \in 1..n |-> Backslash]

\* The backslashes of arg from index i on: where the inner while loop of
\* append_quoted stops.
RECURSIVE SkipBackslashes(_, _)
SkipBackslashes(arg, i) ==
    IF i <= Len(arg) /\ arg[i] = Backslash THEN SkipBackslashes(arg, i + 1) ELSE i

\* The outer loop with a run of backslashes at the end copied as it is.
RECURSIVE quote_loop_TailKept(_, _, _)
quote_loop_TailKept(arg, i, cmdline) ==
    IF i > Len(arg) THEN cmdline
    ELSE LET j == SkipBackslashes(arg, i)
             num_backslashes == j - i
         IN  IF j > Len(arg)
             THEN cmdline \o Backslashes(num_backslashes)
             ELSE IF arg[j] = Quote
             THEN quote_loop_TailKept(arg, j + 1,
                      cmdline \o Backslashes(num_backslashes * 2 + 1) \o <<arg[j]>>)
             ELSE quote_loop_TailKept(arg, j + 1,
                      cmdline \o Backslashes(num_backslashes) \o <<arg[j]>>)

\* The outer while loop of append_quoted from index i (counted from 1) on.
RECURSIVE quote_loop(_, _, _)
quote_loop(arg, i, cmdline) ==
    IF i > Len(arg) THEN cmdline
    ELSE LET j == SkipBackslashes(arg, i)
             num_backslashes == j - i
         IN  IF j > Len(arg)
             THEN cmdline \o Backslashes(num_backslashes * 2)
             ELSE IF arg[j] = Quote
             THEN quote_loop(arg, j + 1,
                      cmdline \o Backslashes(num_backslashes * 2 + 1) \o <<arg[j]>>)
             ELSE quote_loop(arg, j + 1,
                      cmdline \o Backslashes(num_backslashes) \o <<arg[j]>>)

\* CommandBuilder::append_quoted(arg, cmdline)
append_quoted(arg, cmdline) ==
    IF arg # <<>>
         /\ ~\E k \in 1..Len(arg) :
               arg[k] \in {Space, Tab, Newline, VerticalTab, Quote}
    THEN cmdline \o arg
    ELSE quote_loop(arg, 1, cmdline \o <<Quote>>) \o <<Quote>>

\* The arguments tried: every string of up to MaxArgLen units over the
\* units above, and the two longer ones of the description.
ArgUnits == {Space, Tab, Newline, VerticalTab, Quote, Backslash, LetterA}

ArgSamples ==
    UNION {[1..n -> ArgUnits] : n \in 0..MaxArgLen}
    \cup {<<LetterA, Space, Quote, LetterB, Quote, Space, LetterC>>,
          <<LetterA, Space, LetterB, Backslash, Backslash>>}

\* An argument is appended to a command line that holds the program name
\* and a space, or nothing yet.
AppendQuoted ==
    /\ quoting.pc = "arg"
    /\ quoting' = [pc |-> "appended", arg |-> quoting.arg, before |-> quoting.cmdline,
                   cmdline |-> append_quoted(quoting.arg, quoting.cmdline)]
    /\ UNCHANGED <<progvars, codec, client, ids>>

InitQuote ==
    /\ InitProgram
    /\ codec = NoFrame
    /\ client = NoClient
    /\ ids = NoIds
    /\ \E arg \in ArgSamples, cmdline \in {<<>>, <<LetterA, Space>>} :
          quoting = [pc |-> "arg", arg |-> arg, cmdline |-> cmdline]

NextQuote == AppendQuoted

SpecQuote == InitQuote /\ [][NextQuote]_vars

\* ------------------------------------------------ CommandBuilder::cmdline
\* The nul unit, the arguments of the longest builder tried, and the units
\* of its longest argument.
Nul == 0
MaxArgs == 2
MaxBuilderArgLen == 2

HasNul(arg) == \E k \in 1..Len(arg) : arg[k] = Nul

\* A directory of PATH with its separator, as search_path joins it.
PathDir == <<LetterC, Backslash>>

\* search_path(exe): the program as found in a directory of PATH (found), or
\* exe as it was given. A name with a nul in it names no file.
search_path(exe, found) ==
    IF found /\ ~HasNul(exe) THEN PathDir \o exe ELSE exe

\* The for loop of cmdline over the arguments from index i on: a space, the
\* test for a nul, the argument quoted.
RECURSIVE cmdline_args(_, _, _)
cmdline_args(args, i, cmdline) ==
    IF i > Len(args) THEN [ok |-> TRUE, cmdline |-> cmdline]
    ELSE IF HasNul(args[i])
         THEN [ok |-> FALSE, err |-> "invalid encoding for command line argument"]
         ELSE cmdline_args(args, i + 1, append_quoted(args[i], cmdline \o <<Space>>))

\* CommandBuilder::cmdline: (exe, cmdline) or the error of ensure!
cmdline(args, found) ==
    LET exe == search_path(args[1], found)
        rest == cmdline_args(args, 2, append_quoted(exe, <<>>))
    IN  IF ~rest.ok THEN rest
        ELSE [ok |-> TRUE, exe |-> exe \o <<Nul>>, cmdline |-> rest.cmdline \o <<Nul>>]

\* The builders tried: argv[0] and up to MaxArgs - 1 arguments, each of up to
\* MaxBuilderArgLen units.
BuilderUnits == {Nul, Space, Backslash, LetterA}
BuilderArgs == UNION {[1..n -> BuilderUnits] : n \in 0..MaxBuilderArgLen}
Builders == UNION {[1..n -> BuilderArgs] : n \in 1..MaxArgs}

Cmdline ==
    /\ quoting.pc = "builder"
    /\ \E found \in BOOLEAN :
          quoting' = [pc |-> "built", args |-> quoting.args,
                      out |-> cmdline(quoting.args, found)]
    /\ UNCHANGED <<progvars, codec, client, ids>>

InitCmdline ==
    /\ InitProgram
    /\ codec = NoFrame
    /\ client = NoClient
    /\ ids = NoIds
    /\ \E args \in Builders : quoting = [pc |-> "builder", args |-> args]

NextCmdline == Cmdline

SpecCmdline == InitCmdline /\ [][NextCmdline]_vars

\* =============================================================== claims

\* C1 (as claimed): after any sequence of add_tab, add_tab_to_window and
\* remove_tab calls with any arguments, every tab id held by a window of
\* `windows` is a key of `tabs`.
C1_WindowTabsAreRegistered ==
    \A w \in DOMAIN windows : Range(windows[w]) \subseteq tabs

\* C2 (as claimed): no window present in `windows` is empty.
C2_NoWindowIsEmpty ==
    \A w \in DOMAIN windows : ~Window_is_empty(windows[w])

\* C2 (amended): no Mux operation leaves behind a window it has emptied: a
\* window that is empty after a step was created by that step or was empty
\* before it.
C2_NoWindowLeftEmptied ==
    [][\A w \in DOMAIN windows' :
          Window_is_empty(windows'[w]) =>
              (w \notin DOMAIN windows \/ Window_is_empty(windows[w]))]_vars

\* C2 witness: remove_tab has just removed the only tab of a window, and the
\* window is gone.
C2_Witness ==
    /\ last.op = "remove_tab"
    /\ \E w \in 1..(nextWindowId - 1) : w \notin DOMAIN windows

\* C3: remove_tab(t) leaves t out of `tabs` and out of every window, has
\* removed every window that held t and nothing else, and has changed neither
\* another tab nor a window that did not hold t.
C3_RemoveTabPost ==
    [][\A t \in TabIds :
          SetMux(remove_tab(MuxState, t)) =>
              /\ tabs' = tabs \ {t}
              /\ \A w \in DOMAIN windows' : ~Window_contains(windows'[w], t)
              /\ \A w \in DOMAIN windows :
                    IF Window_contains(windows[w], t)
                    THEN IF Range(windows[w]) = {t}
                         THEN w \notin DOMAIN windows'
                         ELSE /\ w \in DOMAIN windows'
                              /\ Range(windows'[w]) = Range(windows[w]) \ {t}
                    ELSE w \in DOMAIN windows' /\ windows'[w] = windows[w]
              /\ DOMAIN windows' \subseteq DOMAIN windows]_vars

\* C3 witness: remove_tab(1) has run on a mux where tab 1 was the only tab of
\* one window and one of two tabs of another: the first window is gone, the
\* second holds the other tab, which is still registered.
C3_Witness ==
    /\ last = Call("remove_tab", 1, 0, "ok")
    /\ nextWindowId = 3
    /\ 1 \notin DOMAIN windows
    /\ 2 \in DOMAIN windows
    /\ windows[2] = <<2>>
    /\ tabs = {2}

IsPrefix(s, t) == Len(s) <= Len(t) /\ \A k \in 1..Len(s) : s[k] = t[k]

\* C5: the bounded channel never holds more than 12 work items, and a reader
\* thread that has an item to send while it holds 12 cannot complete the
\* send: it waits until the GUI thread has received one.
C5_ChannelHoldsAtMost12 ==
    /\ Len(gui_rx) <= GUI_CHANNEL_CAPACITY
    /\ \A i \in 1..Len(readers) :
          (readers[i].pc = "send" /\ Len(gui_rx) = GUI_CHANNEL_CAPACITY)
              => ~ENABLED ReaderSend(i)

\* C5 witness: twelve items queued unreceived, the GUI thread asleep in the
\* native wait, and the reader holding a thirteenth, blocked in send.
C5_Witness ==
    /\ Len(gui_rx) = GUI_CHANNEL_CAPACITY
    /\ gui = "wait"
    /\ ran[1] = <<>>
    /\ \E i \in 1..Len(readers) : readers[i].pc = "send"

\* C6: for each tab, the chunks given to advance_bytes are the chunks read
\* from its pty in the order read: the k-th call gets the k-th chunk.
C6_ChunksInReadOrder ==
    \A t \in TabIds : \A k \in 1..Len(advanced[t]) : advanced[t][k] = k

\* C6 witness: two tabs, each with two chunks read and both given to
\* advance_bytes.
C6_Witness ==
    /\ Len(advanced[1]) = 2
    /\ Len(advanced[2]) = 2

\* C7: the work items one thread submitted are run in the order it submitted
\* them, be it a reader thread (bounded channel) or the GUI thread (deque):
\* the k-th item run of a thread is the k-th it submitted.
C7_RunInSubmissionOrder ==
    \A th \in Threads : \A k \in 1..Len(ran[th]) : ran[th][k] = k

\* C7 witness: two items of the GUI thread were in the deque together and
\* both have run, and so have three items of a reader thread.
C7_Witness ==
    /\ Len(ran[GuiThread]) = 2
    /\ \E i \in 1..Len(readers) : Len(ran[i]) = 3

\* C9: a work item the GUI thread submits goes to the deque and leaves the
\* bounded channel alone, and the submission is possible whatever the channel
\* holds.
C9_GuiSendNeverBlocks ==
    /\ [][guiSent' > guiSent =>
             /\ gui_rx' = gui_rx
             /\ Len(gui_thread_sends') = Len(gui_thread_sends) + (guiSent' - guiSent)]_vars
    /\ [](\A w \in by_id :
             (gui = "wait" /\ guiSent < MaxGuiSends) => ENABLED EventWindowClosed(w))

\* C9 witness: the deque holds an item the GUI thread submitted while the
\* bounded channel was full.
C9_Witness ==
    \E k \in 1..Len(gui_thread_sends) : gui_thread_sends[k].full

\* C10 (as claimed): in every iteration of the service loop the steps come in
\* the order deque, channel, ticks, native wait.
C10_OrderAsClaimed ==
    IsPrefix(iter, <<"deque", "channel", "tick", "wait">>)

\* C10 (amended): in every iteration the steps come in the order native wait,
\* deque, channel, ticks; the deque step ends only with the deque empty,
\* channel items run only in the channel step and ticks are taken only in the
\* tick step.
C10_OrderInLoop ==
    /\ [](IsPrefix(iter, <<"wait", "deque", "channel", "tick">>))
    /\ [][(gui = "tick" /\ gui' = "check") =>
             iter = <<"wait", "deque", "channel", "tick">>]_vars
    /\ [][(gui = "deque" /\ gui' # "deque") => gui_thread_sends' = <<>>]_vars
    /\ [][(\E i \in 1..MaxReaders : ran'[i] # ran[i]) => (gui = "chan" /\ gui' = "chan")]_vars
    /\ [][tick_rx' < tick_rx => (gui = "tick" /\ gui' = "tick")]_vars

\* C10 witness: an iteration has reached its tick step after running two
\* items of the deque and an item of the channel.
C10_Witness ==
    /\ gui = "tick"
    /\ iter = <<"wait", "deque", "channel", "tick">>
    /\ Len(ran[GuiThread]) = 2
    /\ \E i \in 1..Len(readers) : ran[i] # <<>>
    /\ tick_rx > 0

\* The remove_tab item of reader thread i has run.
RemoveRan(i) ==
    /\ i \in 1..Len(readers)
    /\ readers[i].eof
    /\ \E k \in 1..Len(ran[i]) : ran[i][k] = readers[i].nread + 1

\* Reader thread i has met EOF or a read error.
ReaderAtEOF(i) == i \in 1..Len(readers) /\ readers[i].eof

\* No work item of thread th has run twice.
RanOnce(th) ==
    \A j, k \in 1..Len(ran[th]) : ran[th][j] = ran[th][k] => j = k

\* C4 (as claimed): once the reader of a tab has met EOF or a read error, its
\* remove_tab work item is eventually run on the GUI thread.
C4_RemoveEventuallyRuns ==
    \A i \in 1..MaxReaders : ReaderAtEOF(i) ~> RemoveRan(i)

\* C4 (amended): once the reader of a tab has met EOF or a read error, its
\* remove_tab work item is eventually run on the GUI thread, unless
\* run_forever returns first; and it is never run twice.
C4_RemoveRunsOnceUnlessReturned ==
    /\ \A i \in 1..MaxReaders : ReaderAtEOF(i) ~> (RemoveRan(i) \/ gui = "returned")
    /\ [](\A i \in 1..MaxReaders : RanOnce(i))

\* C4 witness: both readers have met EOF after their chunks, both remove_tab
\* items have run and the loop is still serving.
C4_Witness ==
    /\ Len(readers) = 2
    /\ RemoveRan(1) /\ RemoveRan(2)
    /\ ChunksRead(Len(readers)) > 0
    /\ tabs = {}
    /\ gui = "wait"

\* Item n of reader thread i is in the bounded channel.
Queued(i, n) == \E k \in 1..Len(gui_rx) : gui_rx[k].src = i /\ gui_rx[k].n = n

\* C8: a work item a reader thread has put on the bounded channel is
\* eventually run by the GUI thread, unless run_forever returns first; and
\* the thread that has put an item on the channel calls wakeup next.
C8_QueuedEventuallyRuns ==
    /\ \A i \in 1..MaxReaders : \A n \in 1..(LiveChunks + 1) :
           Queued(i, n) ~> (Len(ran[i]) >= n \/ gui = "returned")
    /\ [][\A i \in 1..Len(readers) :
             (Len(gui_rx') > Len(gui_rx) /\ gui_rx'[Len(gui_rx')].src = i)
                 => readers'[i].pc = "wakeup"]_vars
    /\ [][\A i \in 1..Len(readers) :
             (readers[i].pc = "wakeup" /\ readers'[i].pc # "wakeup")
                 => (awakened' > awakened \/ awakened = MaxAwakened)]_vars

\* C8 witness: the GUI thread sleeps in the native wait with nothing to wake
\* it yet, an item is queued, and its sender is about to call wakeup.
C8_Witness ==
    /\ gui = "wait"
    /\ awakened = 0
    /\ ticker = "sleep"
    /\ \E i \in 1..Len(readers) : readers[i].pc = "wakeup" /\ Queued(i, readers[i].nread)

\* C11 (as claimed): the GUI thread enters the native wait of run_event_loop
\* only with the deque empty.
C11_DequeEmptyOnEnteringWait ==
    [][(gui # "wait" /\ gui' = "wait") => gui_thread_sends' = <<>>]_vars

\* C11 (amended): the deque step of process_gui_exec ends only with the
\* deque empty, and whenever an item is in the deque outside that step (put
\* there by tick processing or by a window event) a wakeup is pending, so
\* that the native wait returns at once.
C11_DequeFlushedOrWakeupPending ==
    /\ []((gui_thread_sends # <<>> /\ gui # "deque") => awakened > 0)
    /\ [][(gui = "deque" /\ gui' # "deque") => gui_thread_sends' = <<>>]_vars

\* C11 witness: at the top of the loop, after process_tick has scheduled the
\* close of a window, the deque holds the item.
C11_Witness ==
    /\ gui = "check"
    /\ gui_thread_sends # <<>>
    /\ by_id # {}

\* C12: the second loop of process_gui_exec receives from the channel only
\* while the time since it started is within MAX_POLL_LOOP_DURATION, whatever
\* the channel holds; the channel step is always followed by process_tick,
\* and a tick that is pending while run_forever serves is eventually taken,
\* unless run_forever returns first.
C12_TicksNotStarved ==
    /\ [](gui = "chan" => elapsed <= MaxPollUnits + 1)
    /\ [][(\E i \in 1..MaxReaders : ran'[i] # ran[i]) => ~(elapsed > MaxPollUnits)]_vars
    /\ (gui = "chan") ~> (gui = "tick")
    /\ (tick_rx > 0 /\ gui # "main") ~> (tick_rx = 0 \/ gui = "returned")

\* C12 witness: the time of the drain is up with an item still in the
\* channel and a tick pending.
C12_Witness ==
    /\ gui = "chan"
    /\ elapsed > MaxPollUnits
    /\ gui_rx # <<>>
    /\ tick_rx > 0

\* C13: decode_raw of the bytes encode_raw wrote returns the ident, serial,
\* payload and compressed flag that were encoded, and leaves in the stream
\* exactly what followed the frame.
C13_RawRoundTrip ==
    (codec.pc = "decoded" /\ codec.from.pc = "raw") =>
        /\ codec.out.kind = "ok"
        /\ codec.out.ident = codec.from.ident
        /\ codec.out.serial = codec.from.serial
        /\ codec.out.data = codec.from.data
        /\ codec.out.is_compressed = codec.from.is_compressed
        /\ codec.out.rest = codec.from.tail

\* C13 witness: a compressed frame of ident 0xdeadbeef and serial u64::MAX
\* with a payload that takes the length to two bytes, followed by more
\* bytes, has been decoded.
C13_Witness ==
    /\ codec.pc = "decoded"
    /\ codec.from.pc = "raw"
    /\ codec.from.ident = <<111, 125, 54, 117, 13, 0, 0, 0, 0, 0>>
    /\ codec.from.serial[U64Groups] = 1 /\ codec.from.serial[1] = 127
    /\ codec.from.is_compressed
    /\ Len(codec.from.data) = MaxPayload
    /\ codec.from.tail # <<>>
    /\ codec.out.kind = "ok"

\* The bytes of a stream up to and including the first one without the
\* continuation bit.
RECURSIVE Varint(_)
Varint(r) == IF r = <<>> THEN <<>>
             ELSE IF Head(r) < 128 THEN <<Head(r)>> ELSE <<Head(r)>> \o Varint(Tail(r))

\* The number a varint of at most four bytes stands for.
RECURSIVE VarintValue(_)
VarintValue(b) == IF b = <<>> THEN 0 ELSE (Head(b) % 128) + 128 * VarintValue(Tail(b))

\* C14: what encode_raw writes is the varint of tagged_len, the varint of
\* serial, the varint of ident and the payload; tagged_len without bit 63 is
\* the number of bytes that follow it in the frame, and bit 63 (the tenth
\* byte of the varint) is there iff the frame is compressed; ident 0x81,
\* serial 0x42, "hello" uncompressed gives 08 42 81 01 68 65 6C 6C 6F.
C14_FrameLayout ==
    (codec.pc = "wire" /\ codec.from.pc = "raw") =>
        LET f == codec.from
            frame == SubSeq(codec.wire, 1, Len(codec.wire) - Len(f.tail))
            v1 == Varint(frame)
            r1 == SubSeq(frame, Len(v1) + 1, Len(frame))
            v2 == Varint(r1)
            r2 == SubSeq(r1, Len(v2) + 1, Len(r1))
            v3 == Varint(r2)
            r3 == SubSeq(r2, Len(v3) + 1, Len(r2))
        IN  /\ v2 = leb128_write_unsigned(f.serial)
            /\ v3 = leb128_write_unsigned(f.ident)
            /\ r3 = f.data
            /\ f.is_compressed <=> (Len(v1) = U64Groups /\ v1[U64Groups] = 1)
            /\ Len(v1) \in {1, 2, U64Groups}
            /\ VarintValue(SubSeq(v1, 1, IF Len(v1) = 1 THEN 1 ELSE 2))
                   = Len(v2) + Len(v3) + Len(f.data)
            /\ Len(v1) = U64Groups => \A k \in 3..(U64Groups - 1) : v1[k] = 128
            /\ (f.ident = U64(129) /\ f.serial = U64(66) /\ f.data = Hello
                    /\ ~f.is_compressed)
                 => frame = <<8, 66, 129, 1, 104, 101, 108, 108, 111>>

\* C14 witness: the frame of ident 0x81, serial 0x42 and "hello",
\* uncompressed, is written.
C14_Witness ==
    /\ codec.pc = "wire"
    /\ codec.from.pc = "raw"
    /\ codec.from.ident = U64(129) /\ codec.from.serial = U64(66)
    /\ codec.from.data = Hello /\ ~codec.from.is_compressed

\* C15: a PDU whose serialized form is at most 32 bytes is framed with the
\* compressed bit 0 and those bytes as payload; one whose serialized form is
\* longer has the compressed bit 1 iff its compression is strictly shorter,
\* and the payload is the shorter of the two.
C15_CompressionChoice ==
    (codec.pc = "decoded" /\ codec.from.pc = "pdu") =>
        LET uncompressed == ser_fields(PduFields[codec.from.pdu.name], codec.from.pdu.body)
            compressed == zstd_encode(uncompressed)
            frame == codec.out
        IN  /\ frame.kind = "ok"
            /\ Len(uncompressed) <= 32 =>
                  ~frame.is_compressed /\ frame.data = uncompressed
            /\ Len(uncompressed) > 32 =>
                  /\ frame.is_compressed <=> Len(compressed) < Len(uncompressed)
                  /\ frame.data = IF Len(compressed) < Len(uncompressed)
                                  THEN compressed ELSE uncompressed

\* C15 witness: a WriteToTab of exactly 32 serialized bytes, all but two of
\* them one repeated letter, has been framed as it is, although its
\* compression is shorter.
C15_Witness ==
    /\ codec.pc = "decoded" /\ codec.from.pc = "pdu"
    /\ codec.from.pdu.name = "WriteToTab"
    /\ codec.from.pdu.body[2] = Fill(COMPRESS_THRESH - 2)
    /\ ~codec.out.is_compressed
    /\ Len(codec.out.data) = COMPRESS_THRESH
    /\ Len(zstd_encode(codec.out.data)) < COMPRESS_THRESH

\* C16: Pdu::decode of a frame whose ident is not in the table returns
\* Invalid with the frame's ident and serial whatever the payload and the
\* compressed bit are, and a frame written by Pdu::encode is decoded to the
\* variant that was encoded.
C16_UnknownIdentIsInvalid ==
    /\ (codec.pc = "pdu_decoded" /\ codec.from.pc = "raw"
            /\ \A n \in DOMAIN PduTable : U64(PduTable[n]) # codec.from.ident) =>
          codec.out = [kind |-> "ok", serial |-> codec.from.serial,
                       pdu |-> [name |-> "Invalid", ident |-> codec.from.ident]]
    /\ (codec.pc = "pdu_decoded" /\ codec.from.pc = "pdu") =>
          /\ codec.out.kind = "ok"
          /\ codec.out.pdu.name = codec.from.pdu.name

\* C16 witness: the frame of ident 0xdeadbeef, serial 0x42 and "hello" has
\* been decoded to Invalid{ident: 0xdeadbeef} with serial 0x42.
C16_Witness ==
    /\ codec.pc = "pdu_decoded" /\ codec.from.pc = "raw"
    /\ codec.from.ident = <<111, 125, 54, 117, 13, 0, 0, 0, 0, 0>>
    /\ codec.from.serial = U64(66)
    /\ codec.from.data = Hello
    /\ codec.out.kind = "ok"
    /\ codec.out.pdu.name = "Invalid"

\* C17: the tags of the table are 0..14 and 17, one per variant; a PDU that
\* is encoded with a serial and decoded again is that PDU with that serial,
\* the frame carrying the variant's tag as its ident; Ping with serial 0x40
\* is written as 02 40 01.
C17_PduRoundTrip ==
    /\ {PduTable[n] : n \in DOMAIN PduTable} = (0..14) \cup {17}
    /\ \A n, m \in DOMAIN PduTable : PduTable[n] = PduTable[m] => n = m
    /\ (codec.pc = "pdu_decoded" /\ codec.from.pc = "pdu") =>
          /\ codec.out = [kind |-> "ok", serial |-> codec.from.serial,
                          pdu |-> codec.from.pdu]
          /\ LET v1 == Varint(codec.wire)
                 r1 == SubSeq(codec.wire, Len(v1) + 1, Len(codec.wire))
                 v2 == Varint(r1)
                 r2 == SubSeq(r1, Len(v2) + 1, Len(r1))
             IN  Varint(r2) = leb128_write_unsigned(U64(PduTable[codec.from.pdu.name]))
          /\ (codec.from.pdu.name = "Ping" /\ codec.from.serial = U64(64))
                => codec.wire = <<2, 64, 1>>

\* C17 witness: Ping with serial 0x40 has gone through encode and decode.
C17_Witness ==
    /\ codec.pc = "pdu_decoded" /\ codec.from.pc = "pdu"
    /\ codec.from.pdu.name = "Ping" /\ codec.from.serial = U64(64)
    /\ codec.out.kind = "ok"

\* C18 (as claimed): a request issued with dirty_all false comes at least
\* 50 ms after the request before it, whatever the polls in between
\* returned.
C18_OneRequestPerInterval ==
    client.pc = "tab" =>
        \A i \in 1..(Len(client.tab.sent) - 1) :
            (~client.tab.sent[i].dirty_all /\ ~client.tab.sent[i + 1].dirty_all) =>
                client.tab.sent[i + 1].at - client.tab.sent[i].at >= 50

\* C19: never more than one request is unanswered, and a has_dirty_lines
\* call made while the request issued before is unanswered issues nothing,
\* returns whether the cached response has dirty lines, and leaves coarse,
\* last_poll, dirty_all and poll_future as they were.
C19_OnePollInFlight ==
    /\ [](client.pc = "tab" => client.tab.inflight <= 1)
    /\ [][(/\ client.pc = "tab"
           /\ client'.last.op = "has_dirty_lines"
           /\ client.tab.poll_future.some
           /\ ~Future_is_ready(client.tab.poll_future.value)) =>
             /\ client'.tab.sent = client.tab.sent
             /\ client'.tab.coarse = client.tab.coarse
             /\ client'.tab.last_poll = client.tab.last_poll
             /\ client'.tab.dirty_all = client.tab.dirty_all
             /\ client'.tab.poll_future = client.tab.poll_future
             /\ client'.last.ret = (/\ client.tab.coarse.some
                                    /\ client.tab.coarse.value.dirty_lines # <<>>)]_vars

\* C19 witness: has_dirty_lines has returned true from the cached response
\* while a request is unanswered, all lines were asked to be dirty and the
\* poll interval has passed since the last response.
C19_Witness ==
    /\ client.pc = "tab"
    /\ client.last.op = "has_dirty_lines" /\ client.last.ret
    /\ client.tab.poll_future.some /\ ~Future_is_ready(client.tab.poll_future.value)
    /\ client.tab.dirty_all
    /\ client.now - client.tab.last_poll >= POLL_INTERVAL
    /\ client.tab.inflight = 1

\* C20: a has_dirty_lines call that finds its request answered with an error
\* leaves the tab dead, and no call of has_dirty_lines, make_all_lines_dirty
\* or clean_dirty_lines, nor a later response, makes a dead tab alive.
C20_DeadIsMonotonic ==
    /\ [][(/\ client.pc = "tab"
           /\ client'.last.op = "has_dirty_lines"
           /\ client.tab.poll_future.some
           /\ client.tab.poll_future.value.state = "err") => is_dead(client'.tab)]_vars
    /\ [][(client.pc = "tab" /\ is_dead(client.tab)) => is_dead(client'.tab)]_vars

\* C20 witness: a dead tab has installed the response to a later request.
C20_Witness ==
    /\ client.pc = "tab"
    /\ is_dead(client.tab)
    /\ client.last.op = "has_dirty_lines" /\ client.last.installed
    /\ client.tab.coarse.some

\* C21 (as claimed): the has_dirty_lines call that follows
\* make_all_lines_dirty issues a request carrying dirty_all = true, stores
\* its future and clears dirty_all.
C21_NextCallPollsDirtyAll ==
    [][(/\ client.pc = "tab"
        /\ client.last.op = "make_all_lines_dirty"
        /\ client'.last.op = "has_dirty_lines") =>
          /\ client'.tab.sent = Append(client.tab.sent,
                                       [at |-> client.now, dirty_all |-> TRUE])
          /\ client'.tab.poll_future = Some(Pending)
          /\ ~client'.tab.dirty_all]_vars

\* C21 (amended): a has_dirty_lines call made with dirty_all set issues a
\* request carrying dirty_all = true, stores its future and clears dirty_all
\* whatever last_poll is, unless the request issued before is unanswered or
\* was answered with an error; in those two cases it issues nothing and
\* dirty_all stays set for a later call.
C21_DirtyAllPollsUnlessBusy ==
    [][(/\ client.pc = "tab"
        /\ client.tab.dirty_all
        /\ client'.last.op = "has_dirty_lines") =>
          IF client.tab.poll_future.some
                /\ client.tab.poll_future.value.state \in {"pending", "err"}
          THEN /\ client'.tab.sent = client.tab.sent
               /\ client'.tab.dirty_all
          ELSE /\ client'.tab.sent = Append(client.tab.sent,
                                            [at |-> client.now, dirty_all |-> TRUE])
               /\ client'.tab.poll_future = Some(Pending)
               /\ ~client'.tab.dirty_all]_vars

\* C21 witness: a response was installed at this very instant, and the call
\* that installed it has issued the next request with dirty_all = true.
C21_Witness ==
    /\ client.pc = "tab"
    /\ client.last.op = "has_dirty_lines" /\ client.last.installed
    /\ client.tab.last_poll = client.now
    /\ Len(client.tab.sent) >= 2
    /\ client.tab.sent[Len(client.tab.sent)] = [at |-> client.now, dirty_all |-> TRUE]
    /\ client.tab.poll_future = Some(Pending)
    /\ ~client.tab.dirty_all

\* C22: a has_dirty_lines call made with dirty_all false, no future stored
\* and less than 50 ms after last_poll issues no request, changes nothing
\* and returns whether the cached response has dirty lines; made after
\* clean_dirty_lines it returns false.
C22_NoPollWithinInterval ==
    [][(/\ client.pc = "tab"
        /\ ~client.tab.dirty_all
        /\ ~client.tab.poll_future.some
        /\ client.now - client.tab.last_poll < 50
        /\ client'.last.op = "has_dirty_lines") =>
          /\ client'.tab = client.tab
          /\ client'.last.ret = (/\ client.tab.coarse.some
                                 /\ client.tab.coarse.value.dirty_lines # <<>>)
          /\ (client.last.op = "clean_dirty_lines") => ~client'.last.ret]_vars

\* C22 witness: some time after a response was installed, but within the
\* interval, has_dirty_lines has returned false with a response cached whose
\* dirty lines are gone, and no request is under way.
C22_Witness ==
    /\ client.pc = "tab"
    /\ client.last.op = "has_dirty_lines" /\ ~client.last.ret
    /\ client.tab.coarse.some /\ client.tab.coarse.value.dirty_lines = <<>>
    /\ ~client.tab.dirty_all /\ ~client.tab.poll_future.some
    /\ client.now > client.tab.last_poll
    /\ client.now - client.tab.last_poll < POLL_INTERVAL
    /\ Len(client.tab.sent) = 1

\* C23: add_tab_to_window with a window id that `windows` does not hold
\* returns an error and changes neither `tabs` nor `windows`; with one it
\* holds it returns Ok, the tab is the new last tab of that window, and
\* `tabs` and every other window are as before.
C23_AddTabToWindowPost ==
    [][\A t \in TabIds, w \in WindowIds :
          SetMux(add_tab_to_window(MuxState, t, w)) =>
              IF w \notin DOMAIN windows
              THEN /\ last'.ret = "err"
                   /\ tabs' = tabs
                   /\ windows' = windows
              ELSE /\ last'.ret = "ok"
                   /\ tabs' = tabs
                   /\ DOMAIN windows' = DOMAIN windows
                   /\ windows'[w] = windows[w] \o <<t>>
                   /\ \A v \in DOMAIN windows \ {w} : windows'[v] = windows[v]]_vars

\* C23 witness: add_tab_to_window was refused for window 2, which was never
\* made, while window 1 holds a tab.
C23_Witness ==
    /\ last = Call("add_tab_to_window", 1, 2, "err")
    /\ DOMAIN windows = {1}
    /\ windows[1] # <<>>

\* C24: add_tab registers the tab under its id; with a reader it starts one
\* reader thread for that id and returns Ok; when tab.reader() fails it
\* returns the error and the reader threads are those there were.
C24_AddTabPost ==
    [][\A t \in TabIds, reader_ok \in BOOLEAN :
          SetMux(add_tab(MuxState, t, reader_ok)) =>
              /\ tabs' = tabs \cup {t}
              /\ windows' = windows
              /\ IF reader_ok
                 THEN /\ last'.ret = "ok"
                      /\ Len(readers') = Len(readers) + 1
                      /\ SubSeq(readers', 1, Len(readers)) = readers
                      /\ readers'[Len(readers')].tab = t
                      /\ readers'[Len(readers')].pc = "read"
                 ELSE /\ last'.ret = "err"
                      /\ readers' = readers]_vars

\* C24 witness: add_tab(2) has failed on tab.reader() after add_tab(1) had
\* started a reader: the one reader thread is that of tab 1.
C24_Witness ==
    /\ last = Call("add_tab", 2, 0, "err")
    /\ Len(readers) = 1 /\ readers[1].tab = 1
    /\ 2 \in tabs

\* C25 (as claimed): every tab registered in the mux has exactly one reader
\* thread that has not ended.
C25_OneReaderPerTab ==
    \A t \in tabs :
        Cardinality({i \in 1..Len(readers) :
                        readers[i].tab = t /\ readers[i].pc # "done"}) = 1

\* C26: a step that changes the mux's tabs, its windows or what a terminal
\* has been given is a step of the GUI thread: no reader thread and no tick
\* thread moves in it; advance_bytes and the removal of a tab are the run of
\* a work item inside process_gui_exec.
C26_MuxOnGuiThreadOnly ==
    [][(tabs' # tabs \/ windows' # windows \/ advanced' # advanced) =>
          /\ gui \in {"main", "wait", "deque", "chan"}
          /\ \A i \in 1..Len(readers) : readers'[i] = readers[i]
          /\ ticker' = ticker
          /\ (advanced' # advanced \/ ~(tabs \subseteq tabs')) =>
                /\ gui \in {"deque", "chan"}
                /\ ran' # ran]_vars

\* C26 witness: a reader thread has ended, the chunk it read has been given
\* to its tab's terminal and its tab has been removed, the thread having
\* submitted two work items that were both run.
C26_Witness ==
    \E i \in 1..Len(readers) :
        /\ readers[i].pc = "done"
        /\ readers[i].nread > 0
        /\ Len(ran[i]) = readers[i].nread + 1
        /\ advanced[readers[i].tab] # <<>>
        /\ readers[i].tab \notin tabs

\* C27: of two calls to the same allocator, whichever threads made them,
\* the later one returns the larger id; the local id of a new ClientTab is
\* none of the tab ids handed out before.
C27_IdsNeverReused ==
    ids.pc = "ids" =>
        /\ \A i, j \in 1..Len(ids.calls) :
              (i < j /\ ids.calls[i].space = ids.calls[j].space) =>
                  ids.calls[i].id < ids.calls[j].id
        /\ \A j \in 1..Len(ids.calls) :
              ids.calls[j].by = "ClientTab" =>
                  \A i \in 1..(j - 1) :
                      ids.calls[i].space = "tab" => ids.calls[i].id # ids.calls[j].id

\* C27 witness: two threads have taken domain ids in turn, and a ClientTab
\* was made on one thread after a tab of another kind on the other.
C27_Witness ==
    /\ ids.pc = "ids"
    /\ \E i, j \in 1..Len(ids.calls) :
          /\ i < j
          /\ ids.calls[i].space = "domain" /\ ids.calls[j].space = "domain"
          /\ ids.calls[i].thread # ids.calls[j].thread
    /\ \E i, j \in 1..Len(ids.calls) :
          /\ i < j
          /\ ids.calls[i].by = "LocalTab" /\ ids.calls[j].by = "ClientTab"
          /\ ids.calls[i].thread # ids.calls[j].thread

\* C28: every request a ClientTab has sent carries its remote_tab_id,
\* tab_id() returns its local_tab_id, and send_paste, key_down, mouse_event,
\* resize and a write each send one request, of their own kind.
C28_RequestsCarryRemoteId ==
    /\ [](client.pc = "clienttab" =>
            /\ \A i \in 1..Len(client.sent) : client.sent[i].tab_id = client.remote_tab_id
            /\ client.last.op = "tab_id" => client.last.ret = client.local_tab_id)
    /\ [][(client.pc = "clienttab" /\ client'.last.op
                \in {"send_paste", "key_down", "mouse_event", "resize", "write"}) =>
            /\ Len(client'.sent) = Len(client.sent) + 1
            /\ SubSeq(client'.sent, 1, Len(client.sent)) = client.sent
            /\ client'.sent[Len(client'.sent)].name =
                 (CASE client'.last.op = "send_paste" -> "SendPaste"
                    [] client'.last.op = "key_down" -> "SendKeyDown"
                    [] client'.last.op = "mouse_event" -> "SendMouseEvent"
                    [] client'.last.op = "resize" -> "Resize"
                    [] client'.last.op = "write" -> "WriteToTab")]_vars

\* C28 witness: a tab whose two ids differ has sent a poll request, a
\* resize and a paste.
C28_Witness ==
    /\ client.pc = "clienttab"
    /\ client.local_tab_id # client.remote_tab_id
    /\ Len(client.sent) = 3
    /\ client.sent[1].name = "GetCoarseTabRenderableData"
    /\ client.sent[2].name = "Resize"
    /\ client.sent[3].name = "SendPaste"

\* C29 (as claimed): when the close work item scheduled for a window has
\* run, the tabs of that window are no longer in the mux's `tabs`.
C29_ClosedWindowTabsRemoved ==
    [][\A w \in WindowIds :
          (w \in by_id /\ w \notin by_id' /\ w \in DOMAIN windows) =>
              \A t \in Range(windows[w]) : t \notin tabs']_vars

\* What one unit of an argument becomes inside the quotes: a backslash is
\* written twice when only backslashes lie between it and a quote or the
\* end of the argument, once otherwise; a quote gets a backslash in front;
\* any other unit is copied.
QuotedUnit(arg, k) ==
    IF arg[k] = Backslash
    THEN LET after == {m \in (k + 1)..Len(arg) : arg[m] # Backslash}
             next == IF after = {} THEN 0
                     ELSE CHOOSE m \in after : \A o \in after : m <= o
         IN  IF next = 0 \/ arg[next] = Quote
             THEN <<Backslash, Backslash>> ELSE <<Backslash>>
    ELSE IF arg[k] = Quote THEN <<Backslash, Quote>>
    ELSE <<arg[k]>>

RECURSIVE QuotedUnits(_, _)
QuotedUnits(arg, k) ==
    IF k > Len(arg) THEN <<>> ELSE QuotedUnit(arg, k) \o QuotedUnits(arg, k + 1)

\* C30: append_quoted adds to the command line the argument as it is when
\* it is not empty and holds no space, tab, newline, vertical tab or quote;
\* otherwise the argument between two quotes, a run of n backslashes written
\* as 2n before the closing quote, as 2n+1 before an embedded quote and as n
\* elsewhere; `a "b" c` becomes `"a \"b\" c"` and `a b\\` becomes `"a b\\\\"`.
C30_AppendQuoted ==
    quoting.pc = "appended" =>
        LET arg == quoting.arg
            added == SubSeq(quoting.cmdline, Len(quoting.before) + 1, Len(quoting.cmdline))
            special == \E k \in 1..Len(arg) : arg[k] \in {32, 9, 10, 11, 34}
        IN  /\ SubSeq(quoting.cmdline, 1, Len(quoting.before)) = quoting.before
            /\ (arg # <<>> /\ ~special) => added = arg
            /\ (arg = <<>> \/ special) =>
                  added = <<34>> \o QuotedUnits(arg, 1) \o <<34>>
            /\ arg = <<97, 32, 34, 98, 34, 32, 99>> =>
                  added = <<34, 97, 32, 92, 34, 98, 92, 34, 32, 99, 34>>
            /\ arg = <<97, 32, 98, 92, 92>> =>
                  added = <<34, 97, 32, 98, 92, 92, 92, 92, 34>>

\* C30 witness: an argument of one backslash, a quote and two backslashes
\* has been appended behind the program name as a quote, three backslashes,
\* a quote, four backslashes and a quote.
C30_Witness ==
    /\ quoting.pc = "appended"
    /\ quoting.before # <<>>
    /\ quoting.arg = <<92, 34, 92, 92>>
    /\ quoting.cmdline = quoting.before \o <<34, 92, 92, 92, 34, 92, 92, 92, 92, 34>>

\* C31 (as claimed): cmdline fails when any argument, argv[0] included,
\* holds a nul; when it succeeds the module name and the command line each
\* end with a nul and hold no other.
C31_CmdlineNulTerminated ==
    quoting.pc = "built" =>
        LET out == quoting.out IN
        /\ (\E i \in 1..Len(quoting.args) :
               \E k \in 1..Len(quoting.args[i]) : quoting.args[i][k] = 0) => ~out.ok
        /\ out.ok =>
              /\ out.exe # <<>> /\ out.cmdline # <<>>
              /\ \A k \in 1..Len(out.exe) : (out.exe[k] = 0) <=> (k = Len(out.exe))
              /\ \A k \in 1..Len(out.cmdline) :
                    (out.cmdline[k] = 0) <=> (k = Len(out.cmdline))

\* C32 (as claimed): decode_raw either yields a frame or returns an error;
\* a stream whose length field is smaller than the bytes of its serial and
\* ident, or that ends before the announced payload does, is answered with
\* an error.
C32_DecodeRawNeverPanics ==
    (codec.pc = "decoded" /\ codec.from.pc = "stream") =>
        LET v1 == Varint(codec.wire)
            r1 == SubSeq(codec.wire, Len(v1) + 1, Len(codec.wire))
            v2 == Varint(r1)
            r2 == SubSeq(r1, Len(v2) + 1, Len(r1))
            v3 == Varint(r2)
            r3 == SubSeq(r2, Len(v3) + 1, Len(r2))
            whole(v) == v # <<>> /\ v[Len(v)] < 128
            tagged_len == VarintValue(SubSeq(v1, 1, IF Len(v1) < 4 THEN Len(v1) ELSE 4))
        IN  /\ codec.out.kind \in {"ok", "err"}
            /\ (whole(v1) /\ whole(v2) /\ whole(v3)
                  /\ (\/ tagged_len < Len(v2) + Len(v3)
                      \/ Len(r3) < tagged_len - (Len(v2) + Len(v3)))) =>
                  codec.out.kind = "err"

\* C33: a data work item of a reader thread that is run when its tab is no
\* longer in the mux changes neither tabs nor windows and advances no
\* terminal.
C33_DataAfterRemoveIsNoOp ==
    [][\A i \in 1..Len(readers) :
          (/\ Len(ran'[i]) = Len(ran[i]) + 1
           /\ ran'[i][Len(ran'[i])] <= readers[i].nread
           /\ readers[i].tab \notin tabs)
          => UNCHANGED <<tabs, windows, advanced>>]_vars

\* A chunk of a reader has been run by the executor and is in no
\* terminal: its tab had been removed before.
C33_Witness ==
    \E i \in 1..Len(readers) : \E k \in 1..Len(ran[i]) :
        /\ ran[i][k] <= readers[i].nread
        /\ readers[i].tab \notin tabs
        /\ \A j \in 1..Len(advanced[readers[i].tab]) :
              advanced[readers[i].tab][j] # ran[i][k]

\* C34: remove_tab(t) for a tab id the mux holds neither in `tabs` nor in a
\* window leaves `tabs` and `windows` as they are, empty windows included;
\* and a second remove_tab(t) after a first changes nothing more.
C34_RemoveTabIdempotent ==
    /\ [][\A t \in TabIds :
            (/\ SetMux(remove_tab(MuxState, t))
             /\ t \notin tabs
             /\ \A w \in DOMAIN windows : ~Window_contains(windows[w], t))
            => tabs' = tabs /\ windows' = windows]_vars
    /\ [](\A t \in TabIds :
            LET once == remove_tab(MuxState, t)
                twice == remove_tab(once, t)
            IN  twice.tabs = once.tabs /\ twice.windows = once.windows)

\* C34 witness: remove_tab(1) has run and the two windows made so far are
\* both there and empty, so neither held tab 1 when it ran.
C34_Witness ==
    /\ last = Call("remove_tab", 1, 0, "ok")
    /\ nextWindowId = 3
    /\ DOMAIN windows = {1, 2}
    /\ \A w \in DOMAIN windows : Window_is_empty(windows[w])
    /\ tabs = {2}

\* C35 (as claimed): an add_tab that returns an error, its tab's reader()
\* having failed, leaves the mux as it was: `tabs` is unchanged, so a tab
\* that was not registered before is not registered after.
C35_FailedAddTabLeavesMux ==
    [][\A t \in TabIds :
          SetMux(add_tab(MuxState, t, FALSE)) =>
              /\ last'.ret = "err"
              /\ tabs' = tabs
              /\ windows' = windows
              /\ readers' = readers]_vars

\* C36 (as claimed): LocalDomain::spawn that returns Ok leaves its tab in
\* `tabs` and in the window it was given; one that fails because the mux
\* has no such window leaves the mux as it was: no tab more in `tabs`, no
\* reader thread more.
C36_SpawnAllOrNothing ==
    [][\A t \in TabIds, w \in WindowIds, reader_ok \in BOOLEAN :
          SetMux(LocalDomain_spawn(MuxState, t, reader_ok, w)) =>
              /\ last'.ret = "ok" =>
                    /\ t \in tabs'
                    /\ w \in DOMAIN windows'
                    /\ Window_contains(windows'[w], t)
              /\ (last'.op = "add_tab_to_window" /\ last'.ret = "err") =>
                    /\ w \notin DOMAIN windows
                    /\ tabs' = tabs
                    /\ windows' = windows
                    /\ readers' = readers]_vars

\* C37: dirty_all, once set, goes back to false only in a step that issues
\* a request carrying dirty_all = true; a has_dirty_lines call that returns
\* because a poll is in flight leaves it set.
C37_DirtyAllNotLost ==
    [][(/\ client.pc = "tab"
        /\ client.tab.dirty_all
        /\ ~client'.tab.dirty_all) =>
          /\ client'.last.op = "has_dirty_lines"
          /\ client'.tab.sent = Append(client.tab.sent,
                                       [at |-> client.now, dirty_all |-> TRUE])]_vars

\* C37 witness: has_dirty_lines has returned early behind a request that
\* was issued with dirty_all = false and is still unanswered, and dirty_all
\* is still set.
C37_Witness ==
    /\ client.pc = "tab"
    /\ client.last.op = "has_dirty_lines" /\ ~client.last.installed
    /\ client.tab.dirty_all
    /\ client.tab.poll_future = Some(Pending)
    /\ client.tab.sent # <<>>
    /\ ~client.tab.sent[Len(client.tab.sent)].dirty_all

\* C38 (as claimed): once the dead flag of a ClientTab is set, no step
\* issues a GetCoarseTabRenderableData request for it.
C38_DeadTabStopsPolling ==
    [][(client.pc = "tab" /\ is_dead(client.tab)) =>
          client'.tab.sent = client.tab.sent]_vars

\* C39: run_forever returns Ok only from the top of its loop with no GUI
\* window left, and that step runs no work item and takes none from the
\* queues; the loop never enters the native event-loop wait without a
\* window; once the last window has been removed run_forever does return;
\* and after it has returned nothing runs any more, so the items then
\* queued stay unexecuted.
C39_ReturnsWhenNoWindows ==
    /\ [][(gui \notin {"main", "returned"} /\ gui' = "returned") =>
             /\ gui = "check"
             /\ by_id = {}
             /\ ran' = ran
             /\ gui_rx' = gui_rx
             /\ gui_thread_sends' = gui_thread_sends]_vars
    /\ [](gui = "wait" => by_id # {})
    /\ [][gui = "returned" => UNCHANGED <<ran, gui_rx, gui_thread_sends, advanced>>]_vars
    /\ ((gui \in {"check", "deque", "chan", "tick"} /\ by_id = {}) ~> (gui = "returned"))

\* C39 witness: run_forever has returned after the close of the one window
\* was run, and a work item of a reader thread is left in the channel.
C39_Witness ==
    /\ gui = "returned"
    /\ by_id = {}
    /\ ran[GuiThread] # <<>>
    /\ gui_rx # <<>>

\* C40: Pdu::encode of Invalid{ident} returns an error and writes nothing,
\* whatever the ident and the serial are; only Invalid is refused; and the
\* Invalid that Pdu::decode made of a frame it did not know is refused when
\* it is encoded again.
C40_InvalidNeverEncoded ==
    /\ (codec.pc = "pdu" /\ codec.pdu.name = "Invalid") =>
          /\ ~Pdu_encode(codec.pdu, codec.serial).ok
          /\ Pdu_encode(codec.pdu, codec.serial).bytes = <<>>
    /\ codec.pc = "refused" =>
          /\ codec.from.pdu.name = "Invalid"
          /\ codec.wire = <<>>
    /\ (codec.pc \in {"wire", "pdu_decoded"} /\ codec.from.pc = "pdu") =>
          codec.from.pdu.name # "Invalid"
    /\ (codec.pc = "pdu_decoded" /\ codec.out.kind = "ok"
            /\ codec.out.pdu.name = "Invalid") =>
          /\ ~Pdu_encode(codec.out.pdu, codec.out.serial).ok
          /\ Pdu_encode(codec.out.pdu, codec.out.serial).bytes = <<>>

\* C40 witness: the encode of Invalid{ident: 1}, whose ident is the tag of a
\* variant of the table, has been refused with nothing written.
C40_Witness ==
    /\ codec.pc = "refused"
    /\ codec.from.pdu = [name |-> "Invalid", ident |-> U64(1)]
    /\ codec.wire = <<>>

====
